---------------------------- MODULE Spec2Model ----------------------------
(***************************************************************************)
(* The embedding / ingestion subsystem of the repository:                  *)
(*   agents/embedding_agent.py   EmbeddingAgent (collection setup,         *)
(*                               _embed_with_jina, add_texts, search)      *)
(*   orchestrator/simple_pipeline.py, orchestrator/langgraph_flow.py       *)
(*                               building the work list and ingesting it   *)
(*   utils/resilience.py         api_retry                                 *)
(*   config/config.py            EMBEDDING_DIM                             *)
(*                                                                         *)
(* A vector is represented by its length and its provenance: the local     *)
(* sentence-transformers model maps a text to a vector of MiniLMDim        *)
(* numbers that depends on the text; the placeholder is one fixed pattern  *)
(* of self.dim numbers.  The Qdrant service is the environment: it holds   *)
(* one named collection with a vector size and a set of points.            *)
(***************************************************************************)
EXTENDS Integers, Sequences, FiniteSets, TLC

\* ------------------------------------------------------------ constants

\* config.py:11  EMBEDDING_DIM = int(os.getenv("EMBEDDING_DIM", "1024"))
DefaultEmbeddingDim == 1024

\* embedding_agent.py:36  SentenceTransformer('all-MiniLM-L6-v2') encodes
\* every text into a vector of 384 numbers.
MiniLMDim == 384

\* embedding_agent.py:50  add_texts(..., batch_size=32)
DefaultBatchSize == 32

\* resilience.py:18  stop=stop_after_attempt(3)
ApiRetryAttempts == 3

\* embedding_agent.py:67  search(self, query_text, top_k=5)
DefaultTopK == 5

\* utils/resilience.py, llm_retry: stop_after_attempt(5).
LlmRetryAttempts == 5

\* -------------------------------------------------------------- bounds

\* split_text: the longest text split, and the chunk size it is split with.
MaxTextLen == 5
ChunkSize == 3

\* Articles: the number of generate requests answered 200, and the last
\* second the clock reaches.
MaxGenerated == 3
MaxClock == 1

\* The number of create requests in one run of the concurrent workers.
MaxCreates == 3

\* The number of projects_manager calls in one run.
MaxManagerCalls == 3

\* The number of projects created in one run of the projects API.
MaxProjects == 2

\* Calls (pipeline runs, direct add_texts calls, searches) per behaviour.
MaxCalls == 2

\* The generation model's input budget for the grounding context, in
\* characters.
InputBudget == 6

\* --------------------------------------------------------------- inputs

\* The values EMBEDDING_DIM may be configured to.
ConfiguredDims == {DefaultEmbeddingDim, MiniLMDim}

\* The collection as the index service holds it before the program runs:
\* absent, or present with some vector size.
InitialCollections ==
    {[exists |-> FALSE, size |-> 0]}
        \cup {[exists |-> TRUE, size |-> d] : d \in ConfiguredDims}

\* A file of summary["files"] with the parts split_text gives for its content.
File(path, parts) == [path |-> path, parts |-> parts]

\* A file whose content splits into more parts than one default batch holds.
LongParts == [k \in 1..(DefaultBatchSize + 1) |-> IF k % 2 = 1 THEN "t1" ELSE "t2"]

Repos ==
    { <<>>,
      <<File("a.py", <<"t1">>)>>,
      <<File("a.py", <<"t1", "t2">>), File("empty.txt", <<>>), File("README.md", <<"t3">>)>>,
      <<File("big.py", LongParts)>> }

NoMeta == [k \in {} |-> ""]
Meta(src) == [k \in {"source"} |-> src]

\* Arguments of a direct add_texts call: (text_chunks, metadata_list, batch_size).
\* metadata_list "None" stands for the default argument.
DirectCalls ==
    { [chunks |-> <<"t1", "t2", "t3">>, metas |-> "None", bs |-> 2],
      [chunks |-> <<"t1", "t2", "t3">>, metas |-> <<Meta("a"), Meta("a"), Meta("b")>>, bs |-> 1],
      [chunks |-> <<"t1", "t2", "t3">>, metas |-> <<Meta("a")>>, bs |-> 2],
      [chunks |-> <<"t1", "t2">>, metas |-> <<>>, bs |-> DefaultBatchSize],
      [chunks |-> <<"t1">>, metas |-> <<[k \in {"text"} |-> "other"]>>, bs |-> DefaultBatchSize] }

Queries == {"t1", "q"}

\* ---------------------------------------------------------------- state

VARIABLES
    cfgDim,         \* EMBEDDING_DIM, copied to self.dim
    coll,           \* the collection QDRANT_COLLECTION in the index service
    points,         \* the points stored in that collection
    nextId,         \* source of fresh uuid4 values
    pc,             \* position of the one running call
    caller,         \* "none", "pipeline", "direct", "search", "answer"
    files,          \* run_pipeline: summary["files"]
    text_chunks,    \* add_texts: the work list
    metadata_list,  \* add_texts: the metadata, after the default is applied
    batch_size,     \* add_texts: batch_size
    i,              \* add_texts: the loop variable (0-based offset)
    vectors,        \* the value the last _embed_with_jina call returned
    provLog,        \* what the last _embed_with_jina call did, in order
    events,         \* the embed and upsert calls of the running call, in order
    setup,          \* what the last _ensure_collection did
    outcome,        \* how the last call ended
    before,         \* the points the index held when the running call started
    query,          \* search: query_text and top_k
    attempt,        \* search: the attempt number of api_retry
    hits,           \* search: the value returned
    qa,             \* QAAgent.answer: its calls, prompt, response and value
    ncalls,
    gen,            \* ArticleGeneratorAgent: the running generate / generate_outline call
    projects,       \* backend/data/projects.json: username -> list of projects
    creator,        \* the ids uuid4 has given out, each with the user whose request made it
    response,       \* the last request to the projects API and its response
    splitCall,      \* split_text: its arguments and, once it returned, its value
    workers,        \* create_project requests handled at the same time, one per worker
    users,          \* backend/data/users.json: username -> record
    credential,     \* per user, the password set first and the password set last
    authResp,       \* the last request to the auth API and its response
    loader,         \* load_files_from_directory: the tree, the walk and the records
    articles,       \* backend/data/articles.json: username -> list of articles
    repoData,       \* projects.json: the repo_data of each project
    clock,          \* datetime.now().timestamp(), in whole seconds
    generated,      \* the number of generate requests answered 200
    artResp,        \* the last request to the generation API and its response
    manager,        \* projects_manager: projects_data.json, the clock and the last call
    pipe            \* the orchestrators: the run of each on one repository

embedVars == <<cfgDim, coll, points, nextId, pc, caller, files, text_chunks, metadata_list,
               batch_size, i, vectors, provLog, events, setup, outcome, before,
               query, attempt, hits, qa, ncalls>>

authVars == <<users, credential, authResp>>

artVars == <<articles, repoData, clock, generated, artResp>>

\* The state of the other subsystems, which the embedding agent never touches.
aside == <<gen, projects, creator, response, splitCall, workers, authVars, loader, artVars,
            manager, pipe>>

vars == <<embedVars, aside>>

\* -------------------------------------------------------------- helpers

Min(a, b) == IF a < b THEN a ELSE b

\* Python s[lo : lo + n] on a sequence (lo is 0-based; the slice is clipped).
Slice(s, lo, n) ==
    IF lo >= Len(s) THEN <<>> ELSE SubSeq(s, lo + 1, Min(lo + n, Len(s)))

Range(s) == {s[k] : k \in DOMAIN s}

RECURSIVE Concat(_)
Concat(ss) == IF ss = <<>> THEN <<>> ELSE Head(ss) \o Concat(Tail(ss))

NoQA == [searches |-> 0, chats |-> 0, prompt |-> <<>>, resp |-> <<>>, answer |-> <<>>]

NoSetup == [done |-> FALSE, listed |-> FALSE, existed |-> FALSE, createIssued |-> FALSE,
            error |-> "none"]


\* ------------------------------------------------- EmbeddingAgent setup

\* _ensure_collection, lines 18-22: the names listed, or [] when listing
\* raised; TRUE when self.collection is among them.
CollectionListed(c, listOk) == listOk /\ c.exists

\* qdrant.create_collection (lines 23-26) as the service answers it: an
\* existing name is refused, a new one is created with size = self.dim unless
\* the request fails.
CreateAccepted(c, createOk) == ~c.exists /\ createOk

\* ---------------------------------------------------- _embed_with_jina

\* model.encode(texts): one vector of MiniLMDim numbers per text.
LocalVector(txt) == [len |-> MiniLMDim, kind |-> "model", of |-> txt]

\* line 47: dummy_emb = [float(i % 100) / 100.0 for i in range(self.dim)]
DummyEmb(dim) == [len |-> dim, kind |-> "dummy", of |-> ""]

\* The body with the innermost handler (lines 46-48) re-raising instead of
\* returning the placeholder.
EmbedBodyRaising(texts, dim, firstOk, secondOk) ==
    IF firstOk \/ secondOk
    THEN [raised |-> FALSE,
          vectors |-> [k \in DOMAIN texts |-> LocalVector(texts[k])],
          log |-> IF firstOk THEN <<"local_ok">>
                  ELSE <<"local_fail", "print_fallback", "local_ok">>]
    ELSE [raised |-> TRUE,
          vectors |-> <<>>,
          log |-> <<"local_fail", "print_fallback", "local_fail">>]

\* The body of _embed_with_jina (lines 34-48).  firstOk / secondOk: whether
\* the first and the second use of the local model succeed.  The result holds
\* the vectors returned, whether the body raised, and what it did in order.
EmbedBody(texts, dim, firstOk, secondOk) ==
    IF firstOk
    THEN [raised |-> FALSE,
          vectors |-> [k \in DOMAIN texts |-> LocalVector(texts[k])],
          log |-> <<"local_ok">>]
    ELSE IF secondOk
    THEN [raised |-> FALSE,
          vectors |-> [k \in DOMAIN texts |-> LocalVector(texts[k])],
          log |-> <<"local_fail", "print_fallback", "local_ok">>]
    ELSE [raised |-> FALSE,
          vectors |-> [k \in DOMAIN texts |-> DummyEmb(dim)],
          log |-> <<"local_fail", "print_fallback", "local_fail", "dummy">>]

\* api_retry retrying after every exception.
ShouldRetryAnyException(excKind, n) == n < ApiRetryAttempts

\* api_retry (resilience.py:17-23) around the body: a further attempt only
\* after an exception of a retried type and before the third attempt.
ShouldRetry(excKind, n) == excKind = "transient" /\ n < ApiRetryAttempts

\* @api_retry _embed_with_jina: the body raises nothing, so the first attempt
\* is the only one.
EmbedWithJina(texts, dim, firstOk, secondOk) == EmbedBody(texts, dim, firstOk, secondOk)

\* ------------------------------------------------------------ add_texts

\* line 55: metadata_list = metadata_list or [{} for _ in text_chunks]
DefaultMetadata(metas, chunks) ==
    IF metas = "None" \/ metas = <<>>
    THEN [k \in DOMAIN chunks |-> NoMeta]
    ELSE metas

\* line 61: payload={"text": txt, **meta}
Payload(txt, meta) ==
    [k \in {"text"} \cup DOMAIN meta |-> IF k \in DOMAIN meta THEN meta[k] ELSE txt]

\* An id taken from the position in the batch instead of a fresh value.
NewIdReused(next, k) == k

\* line 61: id=str(uuid.uuid4()), a fresh value for every point.
NewId(next, k) == next + k

\* lines 60-63: one point per element of zip(vectors, batch_texts, batch_meta).
MakePoints(vecs, texts, metas, next) ==
    [k \in 1..Min(Len(vecs), Min(Len(texts), Len(metas))) |->
        [id |-> NewId(next, k), vector |-> vecs[k], payload |-> Payload(texts[k], metas[k])]]

\* A loop step one element too long.
NextOffsetSkipping(lo, bs) == lo + bs + 1

\* line 56: for i in range(0, len(text_chunks), batch_size)
NextOffset(lo, bs) == lo + bs

\* qdrant.upsert (line 64) as the service answers it: refused when the
\* collection is missing or a vector has another size than the collection.
UpsertAccepted(c, pts, netOk) ==
    /\ netOk
    /\ c.exists
    /\ \A k \in DOMAIN pts : pts[k].vector.len = c.size

\* Insert or replace by id.
Upserted(stored, pts) ==
    {p \in stored : \A k \in DOMAIN pts : pts[k].id # p.id} \cup Range(pts)

\* lines 12-18 of run_pipeline (19-29 of embed_repo): the work list.
Chunks(fs) == Concat([f \in DOMAIN fs |-> fs[f].parts])
Metas(fs) ==
    Concat([f \in DOMAIN fs |-> [k \in DOMAIN fs[f].parts |-> Meta(fs[f].path)]])

\* --------------------------------------------------------------- search

\* The similarity the index computes between the query vector and a stored
\* one: highest for the same vector.
Score(q, v) == IF v = q THEN 100 ELSE IF v.kind = q.kind THEN 50 ELSE 0

\* p is ranked before r.
Before(q, p, r) ==
    \/ Score(q, p.vector) > Score(q, r.vector)
    \/ Score(q, p.vector) = Score(q, r.vector) /\ p.id < r.id

RECURSIVE Ranked(_, _)
Ranked(q, pts) ==
    IF pts = {} THEN <<>>
    ELSE LET best == CHOOSE p \in pts : \A r \in pts \ {p} : Before(q, p, r)
         IN  <<best>> \o Ranked(q, pts \ {best})

\* qdrant.search(query_vector=q, limit=...) as the service answers it: the
\* best-scored points first, at most limit of them.
IndexSearch(stored, q, limit) ==
    LET r == Ranked(q, stored)
    IN  [n \in 1..Min(limit, Len(r)) |->
            [id |-> r[n].id, payload |-> r[n].payload, score |-> Score(q, r[n].vector)]]

\* line 71: [{"payload": h.payload, "score": getattr(h, "score", None)} for h in hits]
WrapHits(res) == [n \in DOMAIN res |-> [payload |-> res[n].payload, score |-> res[n].score]]

\* search with top_k not passed on to the index.
SearchHitsDefaultLimit(stored, q, k) == WrapHits(IndexSearch(stored, q, DefaultTopK))

\* lines 69-71: qdrant.search(..., limit=top_k) and the list returned.
SearchHits(stored, q, k) == WrapHits(IndexSearch(stored, q, k))

\* ------------------------------------------------------ QAAgent.answer

\* The callers whose call is a search.
SearchCallers == {"search", "answer"}

RECURSIVE StripLeftOnly(_)

\* Texts are sequences of pieces; these pieces are whitespace.
IsSpace(tok) == tok \in {" ", "\n", "\n\n", "\t"}

\* The texts the generation backend may answer with.
GenResponses ==
    { <<"The answer.">>,
      <<"\n", "An", " ", "answer.", " ", "\n">>,
      <<" ">> }

\* h["payload"].get("text", "")
GetText(payload) == IF "text" \in DOMAIN payload THEN payload["text"] ELSE ""

\* sep.join(texts)
RECURSIVE Join(_, _)
Join(texts, sep) ==
    IF texts = <<>> THEN <<>>
    ELSE IF Len(texts) = 1 THEN <<texts[1]>>
    ELSE <<texts[1], sep>> \o Join(Tail(texts), sep)

\* line 11: context = "\n\n".join([h["payload"].get("text","") for h in hits])
Context(hs) == Join([k \in DOMAIN hs |-> GetText(hs[k].payload)], "\n\n")

\* line 12: the prompt.
Prompt(hs, q) ==
    <<"Using the context below, answer the question concisely.\n\nContext:\n">>
        \o Context(hs) \o <<"\n\nQuestion: ", q, "\n\nAnswer:">>

\* Only the leading whitespace removed.
StripLeftOnly(t) == IF t # <<>> /\ IsSpace(Head(t)) THEN StripLeftOnly(Tail(t)) ELSE t

\* str.strip(): leading and trailing whitespace removed.
RECURSIVE LStrip(_)
LStrip(t) == IF t # <<>> /\ IsSpace(Head(t)) THEN LStrip(Tail(t)) ELSE t
RECURSIVE RStrip(_)
RStrip(t) ==
    IF t # <<>> /\ IsSpace(t[Len(t)]) THEN RStrip(SubSeq(t, 1, Len(t) - 1)) ELSE t
Strip(t) == RStrip(LStrip(t))

\* lines 14-19 with co.chat failing answered by an empty text.
AnswerResultSubstituting(chatOk, resp) ==
    [raised |-> FALSE, text |-> IF chatOk THEN Strip(resp) ELSE <<>>]

\* lines 14-19: co.chat and resp.text.strip(); an exception propagates.
AnswerResult(chatOk, resp) ==
    IF chatOk THEN [raised |-> FALSE, text |-> Strip(resp)]
    ELSE [raised |-> TRUE, text |-> <<>>]

\* ------------------------------------------------ ArticleGeneratorAgent

\* No generation call has been made.
GenIdle == [pc |-> "idle", method |-> "none", attempt |-> 0, log |-> <<>>, outcome |-> "none"]

\* The two methods decorated with llm_retry.
GenMethods == {"generate", "generate_outline"}

\* What co.chat does in one attempt: it returns a response, or raises a
\* configuration error (invalid model name, missing credentials), a transient
\* error (rate limit, network) or any other error.
ChatResults == {"ok", "configuration", "transient", "other"}

\* The exception classes llm_retry retries: retry_if_exception_type(Exception).
RetriedByLlmRetry == {"Exception", "configuration", "transient", "other"}

\* The body of generate / generate_outline: co.chat inside try, and
\* "except Exception as e: raise Exception(...)": whatever co.chat raised
\* leaves the body as a plain Exception.
GenerateBody(chatResult) ==
    IF chatResult = "ok"
    THEN [raised |-> FALSE, exc |-> "none"]
    ELSE [raised |-> TRUE, exc |-> "Exception"]

\* llm_retry: another attempt follows an exception of a retried class while
\* fewer than LlmRetryAttempts attempts were made.
LlmShouldRetry(exc, n) == exc \in RetriedByLlmRetry /\ n < LlmRetryAttempts

\* ------------------------------------------------- routes/projects.py

\* The identities of the access tokens.
Users == {"alice", "bob"}

\* The file before any project is created: an empty object.
NoProjects == [u \in {} |-> <<>>]

NoResponse == [op |-> "none", user |-> "", id |-> 0, status |-> 0, body |-> <<>>,
               before |-> NoProjects]

\* Names sent in request bodies, as sequences of pieces; "" is a missing name.
ProjectNames == {<<" ", "p1", " ">>, <<" ">>}

\* The bodies of PUT requests: the keys present and their values.
UpdateBodies ==
    {[k \in {"name"} |-> <<"renamed", " ">>], [k \in {"status"} |-> <<"done">>]}

\* validate_project_name, applied to the stripped name.
ValidProjectName(name) == Len(name) >= 1

\* projects.get(username, []), taking the first list of the file whoever owns it.
UserProjectsOfFirstUser(file, username) ==
    IF DOMAIN file = {} THEN <<>> ELSE file[CHOOSE u \in DOMAIN file : TRUE]

\* projects.get(username, [])
UserProjects(file, username) == IF username \in DOMAIN file THEN file[username] ELSE <<>>

\* next((p for p in user_projects if p['id'] == project_id), None): the
\* position of the first project with that id, 0 for None.
FindProject(user_projects, project_id) ==
    IF \E k \in DOMAIN user_projects : user_projects[k].id = project_id
    THEN CHOOSE k \in DOMAIN user_projects :
            /\ user_projects[k].id = project_id
            /\ \A j \in 1..(k - 1) : user_projects[j].id # project_id
    ELSE 0

\* update_project, lines 176-185: the allowed fields present in the body
\* are written, the name stripped, and updated_at is set.
UpdatedProject(project, data) ==
    [project EXCEPT !.name = IF "name" \in DOMAIN data THEN Strip(data["name"]) ELSE @,
                    !.status = IF "status" \in DOMAIN data THEN data["status"] ELSE @,
                    !.updated = TRUE]

\* The list cut off at the first project with the id.
WithoutProjectAndLater(user_projects, project_id) ==
    IF FindProject(user_projects, project_id) = 0 THEN user_projects
    ELSE SubSeq(user_projects, 1, FindProject(user_projects, project_id) - 1)

\* [p for p in user_projects if p['id'] != project_id]
WithoutProject(user_projects, project_id) ==
    LET Keep(p) == p.id # project_id IN SelectSeq(user_projects, Keep)

\* projects[username] = lst; the other users' lists are as they were.
WithUserProjects(file, username, lst) ==
    [u \in DOMAIN file \cup {username} |-> IF u = username THEN lst ELSE file[u]]

\* The threads of the server that handle requests at the same time.
Workers == {1, 2}

NoWorkers == [w \in Workers |-> [pc |-> "idle", user |-> "", loaded |-> NoProjects,
                                  id |-> 0, status |-> 0]]

Responded(op, u, id, status, body) ==
    response' = [op |-> op, user |-> u, id |-> id, status |-> status, body |-> body,
                 before |-> projects]

\* ------------------------------------------------- tools/text_splitter.py
\* split_text hands the text to RecursiveCharacterTextSplitter(chunk_size,
\* chunk_overlap).split_text, whose other parameters keep their defaults:
\* separators ["\n\n", "\n", " ", ""], keep_separator=True (a separator opens
\* the piece that follows it), length_function=len, strip_whitespace=True.
\* A text is the sequence of its characters.

Alphabet == {"a", " ", "\n"}

Texts == UNION {[1..n -> Alphabet] : n \in 0..MaxTextLen}

ChunkOverlaps == {0, 1}

Separators == << <<"\n", "\n">>, <<"\n">>, <<" ">>, <<>> >>

NoSplit == [text |-> <<>>, chunk_size |-> ChunkSize, chunk_overlap |-> 0, done |-> FALSE,
            chunks |-> <<>>]

\* The separator occurs in the text at this position.
OccursAt(text, sep, pos) ==
    /\ pos >= 1
    /\ pos + Len(sep) - 1 <= Len(text)
    /\ SubSeq(text, pos, pos + Len(sep) - 1) = sep

\* re.search(separator, text)
Contains(text, sep) == \E pos \in 1..Len(text) : OccursAt(text, sep, pos)

\* re.split with the separator captured, each separator glued to the front
\* of the piece after it; cur is the piece being read.
RECURSIVE SplitKeeping(_, _, _, _)
SplitKeeping(text, sep, pos, cur) ==
    IF pos > Len(text) THEN <<cur>>
    ELSE IF OccursAt(text, sep, pos)
    THEN <<cur>> \o SplitKeeping(text, sep, pos + Len(sep), sep)
    ELSE SplitKeeping(text, sep, pos + 1, Append(cur, text[pos]))

\* _split_text_with_regex: the pieces, the empty ones left out; with the
\* empty separator the pieces are the characters.
SplitTextWithRegex(text, sep) ==
    LET raw == IF sep = <<>> THEN [k \in DOMAIN text |-> <<text[k]>>]
               ELSE SplitKeeping(text, sep, 1, <<>>)
        NonEmpty(piece) == piece # <<>>
    IN  SelectSeq(raw, NonEmpty)

\* _join_docs: the pieces joined and stripped; an empty result is None, which
\* the caller does not keep.  The value is the list of chunks to add.
JoinDocs(docs) ==
    LET t == Strip(Concat(docs)) IN IF t = <<>> THEN <<>> ELSE <<t>>

\* total: the length of the pieces of current_doc (the join separator is "").
Total(current_doc) == Len(Concat(current_doc))

\* _merge_splits, the while loop: pieces leave the front of current_doc
\* until at most chunk_overlap characters stay and the next piece fits.
RECURSIVE PopFront(_, _, _, _)
PopFront(current_doc, len, chunk_size, chunk_overlap) ==
    IF \/ Total(current_doc) > chunk_overlap
       \/ (Total(current_doc) + len > chunk_size /\ Total(current_doc) > 0)
    THEN PopFront(Tail(current_doc), len, chunk_size, chunk_overlap)
    ELSE current_doc

\* _merge_splits, the for loop from piece k on.
RECURSIVE MergeFrom(_, _, _, _, _, _)
MergeFrom(splits, k, docs, current_doc, chunk_size, chunk_overlap) ==
    IF k > Len(splits) THEN docs \o JoinDocs(current_doc)
    ELSE LET d == splits[k]
             full == /\ Total(current_doc) + Len(d) > chunk_size
                     /\ current_doc # <<>>
         IN  MergeFrom(splits, k + 1,
                       IF full THEN docs \o JoinDocs(current_doc) ELSE docs,
                       Append(IF full
                              THEN PopFront(current_doc, Len(d), chunk_size, chunk_overlap)
                              ELSE current_doc, d),
                       chunk_size, chunk_overlap)

MergeSplits(splits, chunk_size, chunk_overlap) ==
    MergeFrom(splits, 1, <<>>, <<>>, chunk_size, chunk_overlap)

\* _split_text, the choice of the separator: the position in separators of
\* the first one that is empty or occurs in the text, 0 if there is none.
RECURSIVE FirstSeparator(_, _, _)
FirstSeparator(text, separators, k) ==
    IF k > Len(separators) THEN 0
    ELSE IF separators[k] = <<>> \/ Contains(text, separators[k]) THEN k
    ELSE FirstSeparator(text, separators, k + 1)

\* _split_text: pieces shorter than chunk_size are collected and merged; a
\* longer piece is split with the remaining separators, or kept as it is
\* when none remains.
RECURSIVE SplitTextWith(_, _, _, _)
RECURSIVE SplitLoop(_, _, _, _, _, _, _)
SplitLoop(splits, k, good_splits, final_chunks, new_separators, chunk_size, chunk_overlap) ==
    LET flushed == IF good_splits # <<>>
                   THEN final_chunks \o MergeSplits(good_splits, chunk_size, chunk_overlap)
                   ELSE final_chunks
    IN  IF k > Len(splits) THEN flushed
        ELSE IF Len(splits[k]) < chunk_size
        THEN SplitLoop(splits, k + 1, Append(good_splits, splits[k]), final_chunks,
                       new_separators, chunk_size, chunk_overlap)
        ELSE SplitLoop(splits, k + 1, <<>>,
                       flushed \o (IF new_separators = <<>> THEN <<splits[k]>>
                                   ELSE SplitTextWith(splits[k], new_separators,
                                                      chunk_size, chunk_overlap)),
                       new_separators, chunk_size, chunk_overlap)

SplitTextWith(text, separators, chunk_size, chunk_overlap) ==
    LET found == FirstSeparator(text, separators, 1)
        separator == IF found = 0 THEN separators[Len(separators)] ELSE separators[found]
        new_separators == IF found = 0 \/ separator = <<>> THEN <<>>
                          ELSE SubSeq(separators, found + 1, Len(separators))
    IN  SplitLoop(SplitTextWithRegex(text, separator), 1, <<>>, <<>>, new_separators,
                  chunk_size, chunk_overlap)

\* split_text(text, chunk_size, chunk_overlap)
split_text(text, chunk_size, chunk_overlap) ==
    SplitTextWith(text, Separators, chunk_size, chunk_overlap)

\* ----------------------------------------------------- routes/auth.py
\* Usernames, passwords and emails are sequences of characters.

MinUsernameLen == 3
MaxUsernameLen == 50
MinPasswordLen == 6
MaxPasswordLen == 128
MaxEmailLen == 100
MinTldLen == 2

Letters == {"a", "b", "c", "e", "i", "n", "o", "r", "s", "t", "w", "x"}

\* [a-zA-Z0-9_-]
UsernameChars == Letters \cup {"0", "_", "-"}
\* [a-zA-Z0-9._%+-]
EmailLocalChars == Letters \cup {"0", ".", "_", "%", "+", "-"}
\* [a-zA-Z0-9.-]
EmailDomainChars == Letters \cup {"0", ".", "-"}

\* The usernames of requests: two well formed ones, one of them also with
\* a leading blank, one too short, one with a character outside the pattern.
Usernames ==
    {<<"a", "n", "n">>, <<" ", "a", "n", "n">>, <<"b", "o", "b">>, <<"a", "b">>,
     <<"a", "!", "b">>}

Passwords ==
    {<<"s", "e", "c", "r", "e", "t">>, <<"s", "e", "c", "r", "e", "t", " ">>,
     <<"p", "a", "s", "s", "w", "0">>, <<"a", "b", "c">>, <<" ">>}

Emails ==
    {<<"a", "@", "x", ".", "i", "o">>, <<" ", "a", "@", "x", ".", "i", "o">>,
     <<"b", "@", "x", ".", "i", "o">>, <<"a", "@", "x">>}

\* The identities access tokens are made for.
Identities == {<<"a", "n", "n">>, <<"b", "o", "b">>}

NoUsers == [u \in {} |-> <<>>]

NoAuthResp == [op |-> "none", username |-> <<>>, password |-> <<>>, email |-> <<>>,
               old_password |-> <<>>, new_password |-> <<>>, status |-> 0,
               token |-> <<>>, before |-> NoUsers]

\* hash_password: SHA256 of the password, taken to be free of collisions.
hash_password(password) == [sha256 |-> password]

validate_username(username) ==
    /\ Len(username) >= MinUsernameLen
    /\ Len(username) <= MaxUsernameLen
    /\ \A k \in DOMAIN username : username[k] \in UsernameChars

\* ^[a-zA-Z0-9._%+-]+@[a-zA-Z0-9.-]+\.[a-zA-Z]{2,}$
validate_email(email) ==
    /\ \E at \in DOMAIN email, dot \in DOMAIN email :
          /\ email[at] = "@" /\ email[dot] = "."
          /\ at > 1 /\ dot > at + 1 /\ Len(email) - dot >= MinTldLen
          /\ \A k \in 1..(at - 1) : email[k] \in EmailLocalChars
          /\ \A k \in (at + 1)..(dot - 1) : email[k] \in EmailDomainChars
          /\ \A k \in (dot + 1)..Len(email) : email[k] \in Letters
    /\ Len(email) <= MaxEmailLen

validate_password(password) ==
    /\ Len(password) >= MinPasswordLen
    /\ Len(password) <= MaxPasswordLen

\* register, lines 110-113, never finding the email.
EmailRegisteredNever(stored, email) == FALSE

\* register, lines 110-113: some stored user has this email.
EmailRegistered(stored, email) == \E u \in DOMAIN stored : stored[u].email = email

\* The comparison of a stored hash that accepts every password.
PasswordMatchesAlways(stored_hash, password) == TRUE

\* users[username]['password'] == hash_password(password)
PasswordMatches(stored_hash, password) == stored_hash = hash_password(password)

\* register, lines 80-129: the status, and the store after the request.
RegisterResult(stored, rawUsername, rawPassword, rawEmail) ==
    LET username == Strip(rawUsername)
        password == Strip(rawPassword)
        email == Strip(rawEmail)
    IN  IF ~validate_username(username) \/ ~validate_password(password)
           \/ ~validate_email(email)
        THEN [status |-> 400, users |-> stored]
        ELSE IF username \in DOMAIN stored \/ EmailRegistered(stored, email)
        THEN [status |-> 409, users |-> stored]
        ELSE [status |-> 201,
              users |-> [u \in DOMAIN stored \cup {username} |->
                            IF u = username
                            THEN [email |-> email, password |-> hash_password(password),
                                  projects |-> <<>>]
                            ELSE stored[u]]]

\* login, lines 145-171: the status and the identity of the token.
LoginResult(stored, rawUsername, rawPassword) ==
    LET username == Strip(rawUsername)
        password == Strip(rawPassword)
    IN  IF username = <<>> \/ password = <<>>
        THEN [status |-> 400, token |-> <<>>]
        ELSE IF username \notin DOMAIN stored
                \/ ~PasswordMatches(stored[username].password, password)
        THEN [status |-> 401, token |-> <<>>]
        ELSE [status |-> 200, token |-> username]

\* change_password, lines 230-265: the status, and the store after it.
ChangePasswordResult(stored, username, rawOld, rawNew) ==
    LET old_password == Strip(rawOld)
        new_password == Strip(rawNew)
    IN  IF old_password = <<>> \/ new_password = <<>> THEN [status |-> 400, users |-> stored]
        ELSE IF ~validate_password(new_password) THEN [status |-> 400, users |-> stored]
        ELSE IF old_password = new_password THEN [status |-> 400, users |-> stored]
        ELSE IF username \notin DOMAIN stored THEN [status |-> 404, users |-> stored]
        ELSE IF ~PasswordMatches(stored[username].password, old_password)
        THEN [status |-> 401, users |-> stored]
        ELSE [status |-> 200,
              users |-> [stored EXCEPT ![username].password = hash_password(new_password)]]

\* ---------------------------------------------------- tools/file_loader.py
\* A path is the sequence of its names and separators; a file name is the
\* sequence of its stem and its extension, or one piece.

EXCLUDE_DIRS ==
    {"venv", "env", ".venv", "node_modules", ".git", "__pycache__", ".pytest_cache",
     "build", "dist", ".egg-info", ".tox", "site-packages", ".next", "out", ".svelte-kit"}

EXCLUDE_FILES == {<<".DS_Store">>, <<"Thumbs", ".db">>, <<".gitkeep">>}

Extensions == {".py", ".md", ".txt", ".json", ".yaml", ".yml", ".toml", ".lock", ".xml"}

SpecialNames ==
    {<<"README">>, <<"LICENSE">>, <<"Dockerfile">>, <<"Makefile">>, <<".gitignore">>}

max_file_size == 500000

\* str.lower on the pieces of the names used here.
Lower(piece) ==
    CASE piece = ".MD" -> ".md"
      [] piece = "NOTES" -> "notes"
      [] piece = "README" -> "readme"
      [] piece = "LICENSE" -> "license"
      [] piece = "Dockerfile" -> "dockerfile"
      [] piece = "Makefile" -> "makefile"
      [] piece = "Thumbs" -> "thumbs"
      [] piece = ".DS_Store" -> ".ds_store"
      [] piece = "HEAD" -> "head"
      [] OTHER -> piece

\* The files a repository may hold: the directories down to the file, the
\* name, the size in bytes, and whether the file can be opened and read.
Entry(dirs, name, size, readable) ==
    [dirs |-> dirs, name |-> name, size |-> size, readable |-> readable]

Universe ==
    << Entry(<<>>, <<"main", ".py">>, 10, TRUE),
       Entry(<<>>, <<"README">>, 20, TRUE),
       Entry(<<>>, <<".DS_Store">>, 5, TRUE),
       Entry(<<"venv">>, <<"lib", ".py">>, 10, TRUE),
       Entry(<<"src", "node_modules">>, <<"x", ".json">>, 10, TRUE),
       Entry(<<"src">>, <<"big", ".md">>, max_file_size + 1, TRUE),
       Entry(<<"src">>, <<"edge", ".txt">>, max_file_size, TRUE),
       Entry(<<"src">>, <<"NOTES", ".MD">>, 30, TRUE),
       Entry(<<"src">>, <<"image", ".png">>, 40, TRUE),
       Entry(<<"src", "lib">>, <<"locked", ".toml">>, 10, FALSE),
       Entry(<<"src", "lib">>, <<"build">>, 10, TRUE) >>

Trees == SUBSET DOMAIN Universe

\* Paths should_exclude is asked about, beside those of the walk.
ProbePaths ==
    { <<"venv", "/", "lib", "/", "python3.8", "/", "site-packages">>,
      <<".git", "/", "HEAD">>,
      <<"__pycache__", "/", "module", ".pyc">>,
      <<"src", "/", "main", ".py">>,
      <<"README", ".md">>,
      <<"src", "\\", "node_modules", "\\", "x", ".js">>,
      <<"src", "/", "build">>,
      <<"src", "/", "my", ".egg-info", "/", "PKG-INFO">> }

NoLoader == [tree |-> {}, todo |-> <<>>, files |-> <<>>, done |-> FALSE,
             probe |-> <<>>, excluded |-> FALSE]

IsPrefix(a, b) == Len(a) <= Len(b) /\ SubSeq(b, 1, Len(a)) = a

\* os.path.join / os.path.relpath: the names with "/" between them.
RECURSIVE JoinPath(_)
JoinPath(names) ==
    IF names = <<>> THEN <<>>
    ELSE IF Len(names) = 1 THEN names[1]
    ELSE names[1] \o <<"/">> \o JoinPath(Tail(names))

\* path.replace('/', os.sep).replace('\\', os.sep)
NormalizeSeparators(path) ==
    [k \in DOMAIN path |-> IF path[k] = "\\" THEN "/" ELSE path[k]]

should_exclude(path) ==
    LET norm == NormalizeSeparators(path)
    IN  \E excluded \in EXCLUDE_DIRS :
            \/ Contains(norm, <<"/", excluded, "/">>)
            \/ IsPrefix(<<excluded, "/">>, norm)

\* file_size > max_file_size, never true.
TooLargeNever(file_size) == FALSE

\* file_size > max_file_size
TooLarge(file_size) == file_size > max_file_size

\* fname.lower().endswith(extensions) or fname in (...)
AllowedName(fname) ==
    \/ Lower(fname[Len(fname)]) \in Extensions
    \/ fname \in SpecialNames

\* os.walk: the sub-directories of a directory, in the order of the listing.
SubDirs(tree, dir) ==
    LET Child(k) == /\ k \in tree
                    /\ Len(Universe[k].dirs) > Len(dir)
                    /\ IsPrefix(dir, Universe[k].dirs)
        First(k) == \A j \in 1..(k - 1) :
                        ~(Child(j) /\ Universe[j].dirs[Len(dir) + 1]
                                        = Universe[k].dirs[Len(dir) + 1])
        idx == SelectSeq([k \in DOMAIN Universe |-> k], LAMBDA k : Child(k) /\ First(k))
    IN  [n \in DOMAIN idx |-> Universe[idx[n]].dirs[Len(dir) + 1]]

\* os.walk: the files of a directory.
FileNames(tree, dir) ==
    SelectSeq([k \in DOMAIN Universe |-> k],
              LAMBDA k : k \in tree /\ Universe[k].dirs = dir)

\* lines 29-55 for one file: the record appended, or nothing.
LoadFile(k) ==
    LET fname == Universe[k].name
        rel_path == JoinPath([n \in 1..(Len(Universe[k].dirs) + 1) |->
                                 IF n <= Len(Universe[k].dirs)
                                 THEN <<Universe[k].dirs[n]>> ELSE fname])
    IN  IF fname \in EXCLUDE_FILES THEN <<>>
        ELSE IF should_exclude(rel_path) THEN <<>>
        ELSE IF ~AllowedName(fname) THEN <<>>
        ELSE IF TooLarge(Universe[k].size) THEN <<>>
        ELSE IF ~Universe[k].readable THEN <<>>
        ELSE <<[path |-> rel_path, name |-> fname, size |-> Universe[k].size]>>

\* ------------------------------------- routes/generation.py, analysis.py

\* The projects of projects.json and the users whose lists hold them.
ProjectOwner == [p \in {<<"p1">>, <<"p3">>} |-> IF p = <<"p3">> THEN "bob" ELSE "alice"]

\* project_id of a request: the stored ids, one with a blank before it, an
\* unknown id, and a blank.
RequestProjectIds == {<<" ", "p1">>, <<"p3">>, <<"p9">>, <<" ">>}

Instructions == {<<"write">>, <<" ">>}

\* What analyze_repo gives for langs: a mapping or None.
Analyses == {"with_languages", "without_languages"}

NoArticles == [u \in {} |-> <<>>]

\* What co.chat does in the attempts of one generate call: it returns, or
\* it raises in every attempt.
ArticleChatResults == {"ok", "transient"}

NoArtResp == [op |-> "none", user |-> "", project_id |-> <<>>, article_id |-> <<>>,
              status |-> 0, chat |-> "none", before |-> NoArticles,
              repo_data |-> "none"]

\* f"art_{len(articles[username])}_{int(datetime.now().timestamp())}"
ArticleId(count, now) == <<"art", count, now>>

\* The ids requests can name.
ArticleIds == {ArticleId(n, t) : n \in 0..(MaxGenerated - 1), t \in 0..MaxClock}

\* sanitize_input: null bytes removed, then strip.
sanitize_input(text) == Strip(SelectSeq(text, LAMBDA c : c # "NUL"))

\* articles.get(username, [])
UserArticles(file, username) == IF username \in DOMAIN file THEN file[username] ELSE <<>>

\* project.get('repo_data') taken as present whatever it is.
AnalysedAlways(repo_data) == TRUE

\* not project.get('repo_data') is false
Analysed(repo_data) == repo_data # "none"

\* lines 123-130: the context; languages None has no keys().
ContextRaises(repo_data) == repo_data = "without_languages"

\* generate_article, lines 99-163: the status and the articles after it.
GenerateArticleResult(file, repo, username, rawProjectId, rawInstructions, chat, now) ==
    LET project_id == Strip(rawProjectId)
        instructions == sanitize_input(rawInstructions)
        unchanged == [articles |-> file, article_id |-> <<>>]
    IN  IF project_id = <<>> \/ instructions = <<>> THEN [status |-> 400] @@ unchanged
        ELSE IF project_id \notin DOMAIN ProjectOwner \/ ProjectOwner[project_id] # username
        THEN [status |-> 404] @@ unchanged
        ELSE IF ~Analysed(repo[project_id]) THEN [status |-> 400] @@ unchanged
        ELSE IF ContextRaises(repo[project_id]) THEN [status |-> 500] @@ unchanged
        ELSE IF GenerateBody(chat).raised THEN [status |-> 500] @@ unchanged
        ELSE LET article_id == ArticleId(Len(UserArticles(file, username)), now)
                 article_obj == [id |-> article_id, project_id |-> project_id]
             IN  [status |-> 200, article_id |-> article_id,
                  articles |-> [u \in DOMAIN file \cup {username} |->
                                   IF u = username
                                   THEN Append(UserArticles(file, username), article_obj)
                                   ELSE file[u]]]

\* ---------------------------------------------------- projects_manager.py
\* projects_data.json holds one dict, project id -> record.  Names, urls and
\* paths are the arguments of create_project; a name is a sequence of
\* characters.

ManagerNames == {<<"M", " ", "P">>, <<"m", " ", "p">>, <<"m", "_", "p">>, <<"O">>}

RepoUrls == {"url1", "url2"}

\* The analysis results given to update_project: with and without the
\* "structure" key.
RepoDatas == {[structure |-> [total_files |-> 2]], [readme |-> "text"]}

NoFile == [p \in {} |-> <<>>]

ManagerIdle == [file |-> NoFile, now |-> 0, calls |-> 0, op |-> "none", id |-> <<>>,
                before |-> NoFile, raised |-> FALSE]

\* str.lower() on one character of the names above.
LowerChar(c) ==
    CASE c = "M" -> "m"
      [] c = "P" -> "p"
      [] c = "O" -> "o"
      [] OTHER -> c

\* Line 30: project_name.lower().replace(" ", "_")
ProjectId(project_name) ==
    [k \in DOMAIN project_name |->
        IF LowerChar(project_name[k]) = " " THEN "_" ELSE LowerChar(project_name[k])]

\* repo_data.get("structure", {}).get("total_files", 0), line 54.
TotalFiles(repo_data) ==
    IF "structure" \in DOMAIN repo_data /\ "total_files" \in DOMAIN repo_data.structure
    THEN repo_data.structure.total_files
    ELSE 0

\* Lines 28-44: the dict create_project saves.  t1 and t2 are the two
\* readings of datetime.now().
create_project(file, project_name, repo_url, repo_path, uploaded_files_count, t1, t2) ==
    LET project_id == ProjectId(project_name)
        record == [id |-> project_id,
                   name |-> project_name,
                   repo_url |-> repo_url,
                   repo_path |-> repo_path,
                   uploaded_files |-> uploaded_files_count,
                   repository_files |-> 0,
                   analyzed |-> FALSE,
                   created_at |-> t1,
                   last_updated |-> t2]
    IN  [p \in DOMAIN file \cup {project_id} |-> IF p = project_id THEN record ELSE file[p]]

\* Lines 52-59: the dict update_project saves when the id is stored.
update_project(file, project_id, repo_data, uploaded_files_count, t) ==
    LET old == file[project_id]
        record == [k \in DOMAIN old \cup {"repo_data"} |->
                     CASE k = "uploaded_files" -> uploaded_files_count
                       [] k = "repository_files" -> TotalFiles(repo_data)
                       [] k = "analyzed" -> TRUE
                       [] k = "last_updated" -> t
                       [] k = "repo_data" -> repo_data
                       [] OTHER -> old[k]]
    IN  [file EXCEPT ![project_id] = record]

\* Lines 79-81 of delete_project.
delete_project(file, project_id) == [p \in DOMAIN file \ {project_id} |-> file[p]]

\* ------------------------------------------------------------ orchestrator
\* run_pipeline and run_langgraph_pipeline call the same five agents.  A
\* README is given by its length and its words; `x in readme.lower()` finds
\* the words that hold x; "fence" stands for the three backquotes that open a
\* code block.

Keywords(word) ==
    CASE word = "Install" -> {"install"}
      [] word = "Usage" -> {"usage"}
      [] word = "Features" -> {"feature"}
      [] word = "Contributing" -> {"contribut"}
      [] word = "License" -> {"license"}
      [] word = "CodeFence" -> {"fence"}
      [] word = "![badge]" -> {"!", "[", "badge"}
      [] OTHER -> {}

Readmes ==
    { [words |-> <<>>, length |-> 0],
      [words |-> <<"# Demo">>, length |-> 6],
      [words |-> <<"# Demo", "Install", "Usage", "Features", "Contributing", "License",
                   "CodeFence", "![badge]">>, length |-> 120] }

\* generate_improved_readme for a repository without README: the joined
\* suggested structure, which is never empty.
ReadmeTemplate == [words |-> <<"# Project Title", "Features", "Usage", "License">>,
                   length |-> 200]

HasWord(readme, x) == \E k \in DOMAIN readme.words : x \in Keywords(readme.words[k])

\* What lower-cased text a path of the repositories below holds.
PathWords(path) ==
    CASE path = "README.md" -> {"readme"}
      [] path = "LICENSE" -> {"license"}
      [] path = "tests/test_a.py" -> {"test", ".py"}
      [] path = ".github/workflows/ci.yml" -> {".github", ".github/workflows"}
      [] path = "CONTRIBUTING.md" -> {"contribut"}
      [] path = "CHANGELOG.md" -> {"changelog"}
      [] OTHER -> {}

\* The repositories the orchestrators are run on: the files the loader
\* returns, and the content of README.md where there is one.
PipelineRepos ==
    { [files |-> fs, content |-> r] :
      fs \in { <<>>,
               <<File("tests/test_a.py", <<"t1", "t2">>)>>,
               <<File("README.md", <<"t3">>)>>,
               <<File("README.md", <<"t3">>), File("LICENSE", <<"t1">>),
                 File("CONTRIBUTING.md", <<"t2">>)>>,
               <<File("README.md", <<"t3">>), File("LICENSE", <<"t1">>),
                 File("tests/test_a.py", <<"t1">>), File(".github/workflows/ci.yml", <<"t2">>),
                 File("CONTRIBUTING.md", <<"t2">>), File("CHANGELOG.md", <<"t2">>)>> },
      r \in Readmes }

\* The texts of the candidates whose condition holds, in order.
Picked(candidates) ==
    LET chosen == SelectSeq(candidates, LAMBDA c : c[1])
    IN  [k \in DOMAIN chosen |-> chosen[k][2]]

AnyPath(fs, x) == \E k \in DOMAIN fs : x \in PathWords(fs[k].path)

\* repo_analyzer.check_missing_sections, lines 138-169.
check_missing_sections(fs, readme) ==
    Picked(<< <<~AnyPath(fs, "license"), "Missing: LICENSE">>,
              <<~AnyPath(fs, "contribut"), "Missing: CONTRIBUTING.md">>,
              <<~AnyPath(fs, "conduct"), "Missing: CODE_OF_CONDUCT.md">>,
              <<~AnyPath(fs, "test"), "Missing: Tests">>,
              <<~AnyPath(fs, "doc"), "Missing: Documentation">>,
              <<~AnyPath(fs, "example"), "Missing: Examples">>,
              <<~AnyPath(fs, ".github"), "Missing: CI/CD">>,
              <<~AnyPath(fs, ".gitignore"), "Missing: .gitignore">>,
              <<readme.length > 0 /\ ~HasWord(readme, "install"),
                "README missing: Installation section">>,
              <<readme.length > 0 /\ ~HasWord(readme, "usage"),
                "README missing: Usage section">>,
              <<readme.length > 0 /\ ~HasWord(readme, "feature"),
                "README missing: Features section">>,
              <<readme.length > 0 /\ ~HasWord(readme, "contribut"),
                "README missing: Contributing section">>,
              <<readme.length > 0 /\ ~HasWord(readme, "license"),
                "README missing: License section">> >>)

\* repo_analyzer.analyze_repo, lines 15-44: the keys the later stages read.
analyze_repo(repo) ==
    LET fs == repo.files
        readme == IF AnyPath(fs, "readme") THEN repo.content
                  ELSE [words |-> <<>>, length |-> 0]
    IN  [files |-> fs,
         readme |-> readme,
         project_type |-> IF AnyPath(fs, ".py") THEN "Python" ELSE "Unknown",
         structure |-> [has_tests |-> AnyPath(fs, "test"),
                        has_docs |-> AnyPath(fs, "docs/"),
                        has_examples |-> AnyPath(fs, "examples/"),
                        has_ci |-> AnyPath(fs, ".github/workflows")],
         missing |-> check_missing_sections(fs, readme),
         best_practices |-> [has_changelog |-> AnyPath(fs, "changelog"),
                             has_pull_request_template |->
                                 AnyPath(fs, "pull_request_template"),
                             has_badges |-> AnyPath(fs, "readme")
                                            /\ HasWord(repo.content, "badge")]]

\* content_improver.py, lines 32-56.
analyze_readme_quality(readme) ==
    Picked(<< <<readme.length < 100, "README is too short - expand with more details">>,
              <<~HasWord(readme, "install"), "Add Installation section">>,
              <<~HasWord(readme, "usage"), "Add Usage section">>,
              <<~HasWord(readme, "feature"), "Add Features section">>,
              <<~HasWord(readme, "contribut"), "Add Contributing section">>,
              <<~HasWord(readme, "license"), "Add License section">>,
              <<~HasWord(readme, "fence"), "Add code examples with syntax highlighting">>,
              <<~HasWord(readme, "!") /\ ~HasWord(readme, "["),
                "Add visual elements (images, badges, diagrams)">> >>)

\* content_improver.py, lines 161-181.
calculate_quality_score(readme, structure, missing) ==
    LET score == 50 + (IF readme.length > 500 THEN 10 ELSE 0)
                    + (IF readme.length > 1000 THEN 10 ELSE 0)
                    + (IF structure.has_tests THEN 10 ELSE 0)
                    + (IF structure.has_docs THEN 10 ELSE 0)
                    + (IF structure.has_ci THEN 10 ELSE 0)
                    + (IF structure.has_examples THEN 5 ELSE 0)
                    - Len(missing) * 2
    IN  Min(100, IF score < 0 THEN 0 ELSE score)

\* content_improver.improve, lines 4-30; metadata is not read.  The
\* suggested images, badges and examples depend on the summary alone and are
\* left out.
improve(repo_summary, metadata) ==
    [improved_readme |-> IF repo_summary.readme.length > 0
                         THEN repo_summary.readme ELSE ReadmeTemplate,
     improvements |-> analyze_readme_quality(repo_summary.readme),
     quality_score |-> calculate_quality_score(repo_summary.readme, repo_summary.structure,
                                               repo_summary.missing)]

\* metadata_recommender.suggest, lines 5-25: a function of the summary.
suggest(repo_summary) ==
    [project_type |-> repo_summary.project_type,
     reasoning |-> [detected_type |-> repo_summary.project_type]]

\* The second argument of reviewer.review: a dict or a str.
AsDict(d) == [kind |-> "dict", value |-> d]
AsStr(t) == [kind |-> "str", value |-> t]

\* `if improved_data:` - a dict with keys and a non-empty str are true.
Truthy(data) == data.kind = "dict" \/ data.value.length > 0

\* any(x in str(m).lower() for m in missing)
Mentions(missing, x) ==
    \E k \in DOMAIN missing :
        \/ x = "license"
           /\ missing[k] \in {"Missing: LICENSE", "README missing: License section"}
        \/ x = "contribut"
           /\ missing[k] \in {"Missing: CONTRIBUTING.md",
                              "README missing: Contributing section"}

\* reviewer.py, lines 88-101.
calculate_health_score(issues, recommendations, completeness) ==
    LET critical == Len(SelectSeq(issues, LAMBDA t : t = "No README found"))
        score == 100 - critical * 20 - (Len(issues) - critical) * 10
                     - Len(recommendations) * 5
                     - (IF completeness.has_license THEN 0 ELSE 15)
                     - (IF completeness.has_tests THEN 0 ELSE 10)
                     - (IF completeness.has_docs THEN 0 ELSE 5)
    IN  IF score < 0 THEN 0 ELSE Min(100, score)

\* reviewer.review, lines 3-86, without the README section checks, the
\* action items and the priority fixes.  The marks that start each text are
\* left out.
review(repo_summary, improved_data) ==
    LET structure == repo_summary.structure
        best_practices == repo_summary.best_practices
        improvements_list ==
            IF Truthy(improved_data) /\ improved_data.kind = "dict"
            THEN improved_data.value.improvements ELSE <<>>
        completeness ==
            [has_license |-> ~Mentions(repo_summary.missing, "license"),
             has_tests |-> structure.has_tests,
             has_docs |-> structure.has_docs,
             has_examples |-> structure.has_examples,
             has_ci |-> structure.has_ci,
             has_contributing |-> ~Mentions(repo_summary.missing, "contribut")]
        issues ==
            Picked(<< <<repo_summary.readme.length = 0, "No README found">>,
                      <<~completeness.has_license, "No LICENSE file">>,
                      <<~completeness.has_tests, "No tests found">>,
                      <<~completeness.has_contributing, "No CONTRIBUTING.md">> >>)
        recommendations ==
            Slice(improvements_list, 0, 3)
            \o Picked(<< <<~completeness.has_ci, "Add CI/CD pipeline">>,
                        <<~best_practices.has_changelog, "Add CHANGELOG">>,
                        <<~best_practices.has_pull_request_template, "Add PR template">>,
                        <<~best_practices.has_badges, "Add badges">> >>)
    IN  [issues |-> issues,
         recommendations |-> recommendations,
         validation_results |->
            [recommendations_count |-> Len(recommendations),
             completeness |-> completeness,
             overall_health |-> calculate_health_score(issues, recommendations, completeness)]]

\* The statements of run_pipeline, lines 9-26, by the stage each one runs.
SimpleStages == <<"analyze", "embed", "metadata", "improve", "review">>

\* langgraph_flow.py, lines 54-61: the entry point and the edges.
GraphEntry == "analyze"
GraphEdges == [n \in {"analyze", "embed", "metadata", "improve", "review"} |->
                 CASE n = "analyze" -> "embed"
                   [] n = "embed" -> "metadata"
                   [] n = "metadata" -> "improve"
                   [] n = "improve" -> "review"
                   [] n = "review" -> "__end__"]

\* What run_pipeline passes to the agent of a stage.
SimpleInput(stage, repo, st) ==
    CASE stage = "analyze" -> <<repo>>
      [] stage = "embed" -> <<Chunks(st.summary.files), Metas(st.summary.files)>>
      [] stage = "metadata" -> <<st.summary>>
      [] stage = "improve" -> <<st.summary, st.metadata>>
      [] stage = "review" -> <<st.summary, AsStr(st.improved.improved_readme)>>

\* What the node functions of langgraph_flow.py pass, lines 15-43.
GraphInput(stage, repo, st) ==
    CASE stage = "analyze" -> <<repo>>
      [] stage = "embed" -> <<Chunks(st.summary.files), Metas(st.summary.files)>>
      [] stage = "metadata" -> <<st.summary>>
      [] stage = "improve" -> <<st.summary, st.metadata>>
      [] stage = "review" -> <<st.summary, AsDict(st.improved)>>

\* The agent of a stage applied to its arguments; add_texts returns nothing.
StageResult(stage, input, st) ==
    CASE stage = "analyze" -> [st EXCEPT !.summary = analyze_repo(input[1])]
      [] stage = "embed" -> st
      [] stage = "metadata" -> [st EXCEPT !.metadata = suggest(input[1])]
      [] stage = "improve" -> [st EXCEPT !.improved = improve(input[1], input[2])]
      [] stage = "review" -> [st EXCEPT !.review = review(input[1], input[2])]

\* The state a run starts from: no key is set.
NoState == [summary |-> [files |-> <<>>], metadata |-> [project_type |-> ""],
            improved |-> [improved_readme |-> ReadmeTemplate], review |-> [issues |-> <<>>]]

NoRun == [next |-> "none", order |-> <<>>, inputs |-> <<>>, state |-> NoState]

PipeIdle == [repo |-> [files |-> <<>>, content |-> ReadmeTemplate], simple |-> NoRun, graph |-> NoRun]

\* ----------------------------------------------------------------- Init

EmbedInit ==
    /\ cfgDim \in ConfiguredDims
    /\ coll \in InitialCollections
    /\ points = {}
    /\ nextId = 0
    /\ pc = "idle"
    /\ caller = "none"
    /\ files = <<>>
    /\ text_chunks = <<>>
    /\ metadata_list = <<>>
    /\ batch_size = DefaultBatchSize
    /\ i = 0
    /\ vectors = <<>>
    /\ provLog = <<>>
    /\ events = <<>>
    /\ setup = NoSetup
    /\ outcome = "none"
    /\ before = {}
    /\ query = [text |-> "", top_k |-> DefaultTopK]
    /\ attempt = 0
    /\ hits = <<>>
    /\ qa = NoQA
    /\ ncalls = 0

\* One fixed state of the embedding subsystem, for the runs of the other
\* subsystems.
EmbedIdle ==
    /\ EmbedInit
    /\ cfgDim = DefaultEmbeddingDim
    /\ coll = [exists |-> FALSE, size |-> 0]

AsideIdle ==
    /\ gen = GenIdle
    /\ projects = NoProjects
    /\ creator = <<>>
    /\ response = NoResponse
    /\ splitCall = NoSplit
    /\ workers = NoWorkers
    /\ users = NoUsers
    /\ credential = NoUsers
    /\ authResp = NoAuthResp
    /\ loader = NoLoader
    /\ articles = NoArticles
    /\ repoData = [p \in DOMAIN ProjectOwner |-> "none"]
    /\ clock = 0
    /\ generated = 0
    /\ artResp = NoArtResp
    /\ manager = ManagerIdle
    /\ pipe = PipeIdle

Init == EmbedInit /\ AsideIdle

\* The start of the runs of the subsystems that draw no input at the start.
InitIdle == EmbedIdle /\ AsideIdle

\* -------------------------------------------------------------- actions

\* A call starts: the per-call records are cleared.
Begin(who, fs, chunks, metas, bs, q) ==
    /\ pc = "idle"
    /\ ncalls < MaxCalls
    /\ ncalls' = ncalls + 1
    /\ caller' = who
    /\ files' = fs
    /\ pc' = "construct"
    /\ text_chunks' = chunks
    /\ metadata_list' = metas
    /\ batch_size' = bs
    /\ query' = q
    /\ i' = 0
    /\ vectors' = <<>>
    /\ provLog' = <<>>
    /\ events' = <<>>
    /\ setup' = NoSetup
    /\ outcome' = "none"
    /\ before' = points
    /\ attempt' = 0
    /\ hits' = <<>>
    /\ qa' = NoQA
    /\ UNCHANGED <<aside, cfgDim, coll, points, nextId>>

\* run_pipeline / embed_repo: the work list of the repository's files,
\* ingested with the default batch size.
RunPipeline ==
    \E fs \in Repos :
        Begin("pipeline", fs, Chunks(fs), DefaultMetadata(Metas(fs), Chunks(fs)),
              DefaultBatchSize, query)

\* add_texts called with explicit arguments.
CallAddTexts ==
    \E c \in DirectCalls :
        Begin("direct", <<>>, c.chunks, DefaultMetadata(c.metas, c.chunks), c.bs, query)

\* search(query) called on a new EmbeddingAgent, top_k left at its default.
CallSearch ==
    \E q \in Queries :
        Begin("search", <<>>, <<>>, <<>>, DefaultBatchSize, [text |-> q, top_k |-> DefaultTopK])

\* QAAgent().answer(query, top_k): the constructor makes a new EmbeddingAgent.
CallAnswer ==
    \E q \in Queries, k \in {1, DefaultTopK} :
        Begin("answer", <<>>, <<>>, <<>>, DefaultBatchSize, [text |-> q, top_k |-> k])

\* How a call ends.
Finish(how) ==
    /\ pc' = "idle"
    /\ outcome' = how

\* EmbeddingAgent.__init__ with _ensure_collection.
Construct ==
    /\ pc = "construct"
    /\ \E listOk \in BOOLEAN, createOk \in BOOLEAN :
         LET listed == CollectionListed(coll, listOk)
             ok     == listed \/ CreateAccepted(coll, createOk)
         IN  /\ setup' = [done |-> TRUE, listed |-> listOk, existed |-> coll.exists,
                          createIssued |-> ~listed,
                          error |-> IF ok THEN "none" ELSE "index_error"]
             /\ coll' = IF ~listed /\ ok THEN [exists |-> TRUE, size |-> cfgDim] ELSE coll
             /\ IF ~ok THEN Finish("raised_setup")
                ELSE IF caller \in SearchCallers
                     THEN pc' = "s_embed" /\ attempt' = 1 /\ outcome' = outcome
                ELSE IF Len(text_chunks) = 0 THEN Finish("returned")
                ELSE pc' = "embed" /\ outcome' = outcome
             /\ IF ok /\ caller \in SearchCallers
                THEN qa' = [qa EXCEPT !.searches = qa.searches + 1]
                ELSE attempt' = attempt /\ qa' = qa
    /\ UNCHANGED <<aside, cfgDim, points, nextId, caller, files, text_chunks, metadata_list, batch_size,
                   i, vectors, provLog, events, before, query, hits, ncalls>>

\* add_texts, lines 57 and 59: the batch is embedded.
EmbedBatch ==
    /\ pc = "embed"
    /\ \E firstOk \in BOOLEAN, secondOk \in BOOLEAN :
         LET batch_texts == Slice(text_chunks, i, batch_size)
             r == EmbedWithJina(batch_texts, cfgDim, firstOk, secondOk)
         IN  /\ provLog' = r.log
             /\ vectors' = r.vectors
             /\ events' = Append(events, [op |-> "embed", at |-> i, texts |-> batch_texts,
                                          points |-> <<>>, ok |-> ~r.raised, exc |-> "none"])
             /\ IF r.raised THEN Finish("raised_embed")
                ELSE pc' = "upsert" /\ outcome' = outcome
    /\ UNCHANGED <<aside, cfgDim, coll, points, nextId, caller, files, text_chunks, metadata_list,
                   batch_size, i, setup, before, query, attempt, hits, qa, ncalls>>

\* add_texts, lines 58 and 60-64: the points are built and upserted; the
\* loop goes on to the next batch or the call returns.
UpsertBatch ==
    /\ pc = "upsert"
    /\ \E netOk \in BOOLEAN :
         LET batch_texts == Slice(text_chunks, i, batch_size)
             batch_meta  == Slice(metadata_list, i, batch_size)
             pts == MakePoints(vectors, batch_texts, batch_meta, nextId)
             ok  == UpsertAccepted(coll, pts, netOk)
         IN  /\ nextId' = nextId + Len(pts)
             /\ events' = Append(events, [op |-> "upsert", at |-> i, texts |-> batch_texts,
                                          points |-> pts, ok |-> ok,
                                          exc |-> IF ok THEN "none" ELSE "other"])
             /\ points' = IF ok THEN Upserted(points, pts) ELSE points
             /\ IF ~ok THEN Finish("raised_upsert") /\ i' = i
                ELSE IF NextOffset(i, batch_size) >= Len(text_chunks)
                     THEN Finish("returned") /\ i' = i
                ELSE pc' = "embed" /\ i' = NextOffset(i, batch_size) /\ outcome' = outcome
    /\ UNCHANGED <<aside, cfgDim, coll, caller, files, text_chunks, metadata_list, batch_size, vectors,
                   provLog, setup, before, query, attempt, hits, qa, ncalls>>

\* search, line 68: the query is embedded.
SearchEmbed ==
    /\ pc = "s_embed"
    /\ \E firstOk \in BOOLEAN, secondOk \in BOOLEAN :
         LET r == EmbedWithJina(<<query.text>>, cfgDim, firstOk, secondOk)
         IN  /\ provLog' = r.log
             /\ vectors' = r.vectors
             /\ events' = Append(events, [op |-> "embed", at |-> 0, texts |-> <<query.text>>,
                                          points |-> <<>>, ok |-> ~r.raised, exc |-> "none"])
             /\ IF r.raised THEN Finish("raised_embed")
                ELSE pc' = "s_query" /\ outcome' = outcome
    /\ UNCHANGED <<aside, cfgDim, coll, points, nextId, caller, files, text_chunks, metadata_list,
                   batch_size, i, setup, before, query, attempt, hits, qa, ncalls>>

\* search, lines 69-71 under api_retry: the index is queried; a failure of a
\* retried type starts the next attempt, any other ends the call.
SearchQuery ==
    /\ pc = "s_query"
    /\ \E res \in {"ok", "transient", "other"} :
         LET vec == vectors[1]
             ok  == res = "ok" /\ coll.exists /\ vec.len = coll.size
             exc == IF res = "transient" THEN "transient" ELSE "other"
         IN  /\ events' = Append(events, [op |-> "query", at |-> attempt, texts |-> <<query.text>>,
                                          points |-> <<>>, ok |-> ok,
                                          exc |-> IF ok THEN "none" ELSE exc])
             /\ IF ok THEN /\ hits' = SearchHits(points, vec, query.top_k)
                           /\ attempt' = attempt
                           /\ IF caller = "answer"
                              THEN pc' = "generate" /\ outcome' = outcome
                              ELSE Finish("returned")
                ELSE IF ShouldRetry(exc, attempt)
                     THEN /\ attempt' = attempt + 1
                          /\ pc' = "s_embed"
                          /\ UNCHANGED <<hits, outcome>>
                     ELSE /\ Finish("raised_search")
                          /\ UNCHANGED <<hits, attempt>>
    /\ UNCHANGED <<aside, cfgDim, coll, points, nextId, caller, files, text_chunks, metadata_list,
                   batch_size, i, vectors, provLog, setup, before, query, qa, ncalls>>

\* QAAgent.answer, lines 11-19: the context and the prompt are built from the
\* hits, the generation backend is called once, and its text is returned
\* trimmed; an exception of co.chat leaves answer.
Generate ==
    /\ pc = "generate"
    /\ \E chatOk \in BOOLEAN, resp \in GenResponses :
         LET r == AnswerResult(chatOk, resp)
         IN  /\ qa' = [qa EXCEPT !.chats = qa.chats + 1,
                                 !.prompt = Prompt(hits, query.text),
                                 !.resp = IF chatOk THEN resp ELSE <<>>,
                                 !.answer = r.text]
             /\ events' = Append(events, [op |-> "chat", at |-> qa.chats + 1,
                                          texts |-> <<query.text>>, points |-> <<>>,
                                          ok |-> chatOk,
                                          exc |-> IF chatOk THEN "none" ELSE "other"])
             /\ IF r.raised THEN Finish("raised_generation") ELSE Finish("returned")
    /\ UNCHANGED <<aside, cfgDim, coll, points, nextId, caller, files, text_chunks, metadata_list,
                   batch_size, i, vectors, provLog, setup, before, query, attempt, hits,
                   ncalls>>

Next ==
    \/ RunPipeline
    \/ CallAddTexts
    \/ CallSearch
    \/ Construct
    \/ EmbedBatch
    \/ UpsertBatch
    \/ SearchEmbed
    \/ SearchQuery

Spec == Init /\ [][Next]_vars

\* Question answering over an index filled by add_texts calls.
NextQA ==
    \/ CallAddTexts
    \/ CallAnswer
    \/ Construct
    \/ EmbedBatch
    \/ UpsertBatch
    \/ SearchEmbed
    \/ SearchQuery
    \/ Generate

SpecQA == Init /\ [][NextQA]_vars

\* generate(...) or generate_outline(...) is called.
CallGenerate ==
    /\ gen.pc = "idle"
    /\ \E m \in GenMethods :
         gen' = [pc |-> "call", method |-> m, attempt |-> 1, log |-> <<>>, outcome |-> "none"]
    /\ UNCHANGED <<embedVars, manager, pipe, artVars, loader, authVars, workers, projects, creator, response, splitCall>>

\* One attempt of the decorated method, and the decision of llm_retry.
GenAttempt ==
    /\ gen.pc = "call"
    /\ \E res \in ChatResults :
         LET b == GenerateBody(res)
             entry == [at |-> gen.attempt, chat |-> res, exc |-> b.exc]
         IN  gen' = IF ~b.raised
                    THEN [gen EXCEPT !.pc = "idle", !.outcome = "returned",
                                     !.log = Append(gen.log, entry)]
                    ELSE IF LlmShouldRetry(b.exc, gen.attempt)
                    THEN [gen EXCEPT !.attempt = gen.attempt + 1,
                                     !.log = Append(gen.log, entry)]
                    ELSE [gen EXCEPT !.pc = "idle", !.outcome = "raised",
                                     !.log = Append(gen.log, entry)]
    /\ UNCHANGED <<embedVars, manager, pipe, artVars, loader, authVars, workers, projects, creator, response, splitCall>>

NextGen ==
    \/ CallGenerate
    \/ GenAttempt

SpecGen == InitIdle /\ [][NextGen]_vars

\* POST /api/projects
CreateProject ==
    /\ Len(creator) < MaxProjects
    /\ \E u \in Users, name \in ProjectNames, urlValid \in BOOLEAN :
         LET project_name == Strip(name)
             id == Len(creator) + 1
             project == [id |-> id, name |-> project_name, status |-> <<"pending">>,
                         updated |-> FALSE]
         IN  IF ~ValidProjectName(project_name) \/ ~urlValid
             THEN /\ Responded("create", u, 0, 400, <<>>)
                  /\ UNCHANGED <<projects, creator>>
             ELSE /\ projects' = WithUserProjects(projects, u,
                                      Append(UserProjects(projects, u), project))
                  /\ creator' = Append(creator, u)
                  /\ Responded("create", u, id, 201, <<project>>)
    /\ UNCHANGED <<embedVars, manager, pipe, artVars, loader, authVars, workers, splitCall, gen>>

\* GET /api/projects
GetProjects ==
    /\ \E u \in Users :
         Responded("list", u, 0, 200, UserProjects(projects, u))
    /\ UNCHANGED <<embedVars, manager, pipe, artVars, loader, authVars, workers, splitCall, gen, projects, creator>>

\* GET /api/projects/<project_id>
GetProject ==
    /\ \E u \in Users, project_id \in 1..MaxProjects :
         LET user_projects == UserProjects(projects, u)
             k == FindProject(user_projects, project_id)
         IN  IF k = 0
             THEN Responded("get", u, project_id, 404, <<>>)
             ELSE Responded("get", u, project_id, 200, <<user_projects[k]>>)
    /\ UNCHANGED <<embedVars, manager, pipe, artVars, loader, authVars, workers, splitCall, gen, projects, creator>>

\* PUT /api/projects/<project_id>
UpdateProject ==
    /\ \E u \in Users, project_id \in 1..MaxProjects, data \in UpdateBodies :
         LET user_projects == UserProjects(projects, u)
             k == FindProject(user_projects, project_id)
         IN  IF k = 0
             THEN /\ Responded("update", u, project_id, 404, <<>>)
                  /\ UNCHANGED projects
             ELSE LET project == UpdatedProject(user_projects[k], data)
                  IN  /\ projects' = WithUserProjects(projects, u,
                                           [user_projects EXCEPT ![k] = project])
                      /\ Responded("update", u, project_id, 200, <<project>>)
    /\ UNCHANGED <<embedVars, manager, pipe, artVars, loader, authVars, workers, splitCall, gen, creator>>

\* DELETE /api/projects/<project_id>
DeleteProject ==
    /\ \E u \in Users, project_id \in 1..MaxProjects :
         LET user_projects == UserProjects(projects, u)
             rest == WithoutProject(user_projects, project_id)
         IN  IF Len(rest) = Len(user_projects)
             THEN /\ Responded("delete", u, project_id, 404, <<>>)
                  /\ UNCHANGED projects
             ELSE /\ projects' = WithUserProjects(projects, u, rest)
                  /\ Responded("delete", u, project_id, 200, <<>>)
    /\ UNCHANGED <<embedVars, manager, pipe, artVars, loader, authVars, workers, splitCall, gen, creator>>

NextProjects ==
    \/ CreateProject
    \/ GetProjects
    \/ GetProject
    \/ UpdateProject
    \/ DeleteProject

SpecProjects == InitIdle /\ [][NextProjects]_vars

\* create_project in one worker, lines 103-126: the request is validated and
\* load_projects reads the file into the worker's own dictionary.
CreateLoad(w) ==
    /\ workers[w].pc # "loaded"
    /\ Len(creator) + Cardinality({v \in Workers : workers[v].pc = "loaded"}) < MaxCreates
    /\ \E u \in Users :
         workers' = [workers EXCEPT ![w] = [pc |-> "loaded", user |-> u, loaded |-> projects,
                                            id |-> 0, status |-> 0]]
    /\ UNCHANGED <<embedVars, manager, pipe, artVars, loader, authVars, gen, projects, creator, response, splitCall>>

\* create_project in one worker, lines 128-153: the project gets a fresh id,
\* is appended to the user's list of the worker's dictionary, the dictionary
\* is written to the file, and 201 is returned.
CreateSave(w) ==
    /\ workers[w].pc = "loaded"
    /\ LET u == workers[w].user
           id == Len(creator) + 1
           project == [id |-> id, name |-> <<"p1">>, status |-> <<"pending">>,
                       updated |-> FALSE]
       IN  /\ projects' = WithUserProjects(workers[w].loaded, u,
                               Append(UserProjects(workers[w].loaded, u), project))
           /\ creator' = Append(creator, u)
           /\ workers' = [workers EXCEPT ![w] = [@ EXCEPT !.pc = "returned", !.id = id,
                                                          !.status = 201]]
    /\ UNCHANGED <<embedVars, manager, pipe, artVars, loader, authVars, gen, response, splitCall>>

NextConcurrent == \E w \in Workers : CreateLoad(w) \/ CreateSave(w)

SpecConcurrent == InitIdle /\ [][NextConcurrent]_vars

\* POST /api/auth/register
Register ==
    /\ \E u \in Usernames, pw \in Passwords, e \in Emails :
         LET r == RegisterResult(users, u, pw, e)
         IN  /\ users' = r.users
             /\ credential' = IF r.status = 201
                               THEN [n \in DOMAIN credential \cup {Strip(u)} |->
                                        IF n = Strip(u)
                                        THEN [first |-> Strip(pw), last |-> Strip(pw)]
                                        ELSE credential[n]]
                               ELSE credential
             /\ authResp' = [NoAuthResp EXCEPT !.op = "register", !.username = u,
                                                !.password = pw, !.email = e,
                                                !.status = r.status, !.before = users]
    /\ UNCHANGED <<embedVars, manager, pipe, artVars, loader, gen, projects, creator, response, splitCall, workers>>

\* POST /api/auth/login
Login ==
    /\ \E u \in Usernames, pw \in Passwords :
         LET r == LoginResult(users, u, pw)
         IN  authResp' = [NoAuthResp EXCEPT !.op = "login", !.username = u, !.password = pw,
                                            !.status = r.status, !.token = r.token,
                                            !.before = users]
    /\ UNCHANGED <<embedVars, manager, pipe, artVars, loader, gen, projects, creator, response, splitCall, workers,
                   users, credential>>

\* POST /api/auth/change-password, with the token of an identity
ChangePassword ==
    /\ \E u \in Identities, old \in Passwords, new \in Passwords :
         LET r == ChangePasswordResult(users, u, old, new)
         IN  /\ users' = r.users
             /\ credential' = IF r.status = 200
                               THEN [credential EXCEPT ![u].last = Strip(new)]
                               ELSE credential
             /\ authResp' = [NoAuthResp EXCEPT !.op = "change", !.username = u,
                                                !.old_password = old, !.new_password = new,
                                                !.status = r.status, !.before = users]
    /\ UNCHANGED <<embedVars, manager, pipe, artVars, loader, gen, projects, creator, response, splitCall, workers>>

NextAuth ==
    \/ Register
    \/ Login
    \/ ChangePassword

SpecAuth == InitIdle /\ [][NextAuth]_vars

\* load_files_from_directory is called on a directory holding this tree.
InitLoader ==
    /\ EmbedIdle
    /\ gen = GenIdle
    /\ projects = NoProjects
    /\ creator = <<>>
    /\ response = NoResponse
    /\ workers = NoWorkers
    /\ users = NoUsers
    /\ credential = NoUsers
    /\ authResp = NoAuthResp
    /\ splitCall = NoSplit
    /\ articles = NoArticles
    /\ repoData = [p \in DOMAIN ProjectOwner |-> "none"]
    /\ clock = 0
    /\ generated = 0
    /\ artResp = NoArtResp
    /\ manager = ManagerIdle
    /\ pipe = PipeIdle
    /\ loader \in {[NoLoader EXCEPT !.tree = t, !.todo = << <<>> >>] : t \in Trees}

\* One step of os.walk, lines 26-55: the next directory is listed, its
\* excluded sub-directories are dropped from the walk, and its files are
\* loaded; the others are walked before the directories left.
WalkDirectory ==
    /\ loader.todo # <<>>
    /\ LET root == Head(loader.todo)
           listed == SubDirs(loader.tree, root)
           dirs == SelectSeq(listed, LAMBDA d : d \notin EXCLUDE_DIRS)
           filenames == FileNames(loader.tree, root)
           todo == [n \in DOMAIN dirs |-> Append(root, dirs[n])] \o Tail(loader.todo)
       IN  loader' = [loader EXCEPT
                        !.todo = todo,
                        !.files = loader.files
                                    \o Concat([n \in DOMAIN filenames |-> LoadFile(filenames[n])]),
                        !.done = (todo = <<>>)]
    /\ UNCHANGED <<embedVars, manager, pipe, artVars, authVars, gen, projects, creator, response, splitCall, workers>>

\* should_exclude is called on a path.
ShouldExclude ==
    /\ \E path \in ProbePaths :
         loader' = [loader EXCEPT !.probe = path, !.excluded = should_exclude(path)]
    /\ UNCHANGED <<embedVars, manager, pipe, artVars, authVars, gen, projects, creator, response, splitCall, workers>>

NextLoader ==
    \/ WalkDirectory
    \/ ShouldExclude

SpecLoader == InitLoader /\ [][NextLoader]_vars

\* POST /api/analysis/download-repo, lines 62-84: the repo_data of the
\* user's project is written.
DownloadRepo ==
    /\ \E u \in Users, pid \in RequestProjectIds, a \in Analyses :
         LET project_id == Strip(pid)
         IN  /\ project_id \in DOMAIN ProjectOwner
             /\ ProjectOwner[project_id] = u
             /\ repoData' = [repoData EXCEPT ![project_id] = a]
    /\ UNCHANGED <<embedVars, manager, pipe, authVars, loader, gen, projects, creator, response, splitCall,
                   workers, articles, clock, generated, artResp>>

\* A second passes.
Tick ==
    /\ clock < MaxClock
    /\ clock' = clock + 1
    /\ UNCHANGED <<embedVars, manager, pipe, authVars, loader, gen, projects, creator, response, splitCall,
                   workers, articles, repoData, generated, artResp>>

\* POST /api/generation/article
GenerateArticle ==
    /\ generated < MaxGenerated
    /\ \E u \in Users, pid \in RequestProjectIds, ins \in Instructions,
          chat \in ArticleChatResults :
         LET r == GenerateArticleResult(articles, repoData, u, pid, ins, chat, clock)
         IN  /\ articles' = r.articles
             /\ generated' = IF r.status = 200 THEN generated + 1 ELSE generated
             /\ artResp' = [NoArtResp EXCEPT !.op = "generate", !.user = u,
                                              !.project_id = Strip(pid),
                                              !.article_id = r.article_id,
                                              !.status = r.status, !.chat = chat,
                                              !.before = articles]
    /\ UNCHANGED <<embedVars, manager, pipe, authVars, loader, gen, projects, creator, response, splitCall,
                   workers, repoData, clock>>

\* GET /api/generation/article/<article_id>
GetArticle ==
    /\ \E u \in Users, article_id \in ArticleIds :
         LET found == SelectSeq(UserArticles(articles, u), LAMBDA a : a.id = article_id)
         IN  artResp' = [NoArtResp EXCEPT !.op = "get", !.user = u, !.article_id = article_id,
                                          !.status = IF found = <<>> THEN 404 ELSE 200,
                                          !.before = articles]
    /\ UNCHANGED <<embedVars, manager, pipe, authVars, loader, gen, projects, creator, response, splitCall,
                   workers, articles, repoData, clock, generated>>

\* DELETE /api/generation/article/<article_id>
DeleteArticle ==
    /\ \E u \in Users, article_id \in ArticleIds :
         LET user_articles == UserArticles(articles, u)
             rest == SelectSeq(user_articles, LAMBDA a : a.id # article_id)
             found == Len(rest) # Len(user_articles)
         IN  /\ articles' = IF found
                             THEN [v \in DOMAIN articles \cup {u} |->
                                      IF v = u THEN rest ELSE articles[v]]
                             ELSE articles
             /\ artResp' = [NoArtResp EXCEPT !.op = "delete", !.user = u,
                                              !.article_id = article_id,
                                              !.status = IF found THEN 200 ELSE 404,
                                              !.before = articles]
    /\ UNCHANGED <<embedVars, manager, pipe, authVars, loader, gen, projects, creator, response, splitCall,
                   workers, repoData, clock, generated>>

NextArticles ==
    \/ DownloadRepo
    \/ Tick
    \/ GenerateArticle
    \/ GetArticle
    \/ DeleteArticle

SpecArticles == InitIdle /\ [][NextArticles]_vars

\* ------------------------------------------------ projects_manager actions
\* Every call of the Streamlit application reads datetime.now(), which never
\* goes back; a call loads projects_data.json, changes the dict and saves it.

ManagerForeign == <<embedVars, authVars, artVars, loader, gen, projects, creator, response,
                    splitCall, workers, pipe>>

ManagerCall(op, project_id, file, t, raised) ==
    /\ manager' = [file |-> file, now |-> t, calls |-> manager.calls + 1, op |-> op,
                   id |-> project_id, before |-> manager.file, raised |-> raised]
    /\ UNCHANGED ManagerForeign

\* create_project(project_name, repo_url, repo_path)
ManagerCreate ==
    /\ manager.calls < MaxManagerCalls
    /\ \E project_name \in ManagerNames, repo_url \in RepoUrls,
          t1 \in {manager.now, manager.now + 1} :
         \E t2 \in {t1, t1 + 1} :
            ManagerCall("create", ProjectId(project_name),
                        create_project(manager.file, project_name, repo_url, "path", 0, t1, t2),
                        t2, FALSE)

\* update_project(project_id, repo_data): line 61 raises KeyError for an id
\* that is not stored.
ManagerUpdate ==
    /\ manager.calls < MaxManagerCalls
    /\ \E project_name \in ManagerNames, repo_data \in RepoDatas,
          t \in {manager.now, manager.now + 1} :
         LET project_id == ProjectId(project_name)
         IN  IF project_id \in DOMAIN manager.file
             THEN ManagerCall("update", project_id,
                              update_project(manager.file, project_id, repo_data, 0, t),
                              t, FALSE)
             ELSE ManagerCall("update", project_id, manager.file, manager.now, TRUE)

\* delete_project(project_id)
ManagerDelete ==
    /\ manager.calls < MaxManagerCalls
    /\ \E project_name \in ManagerNames :
         LET project_id == ProjectId(project_name)
         IN  IF project_id \in DOMAIN manager.file
             THEN ManagerCall("delete", project_id,
                              delete_project(manager.file, project_id), manager.now, FALSE)
             ELSE ManagerCall("delete", project_id, manager.file, manager.now, FALSE)

NextManager ==
    \/ ManagerCreate
    \/ ManagerUpdate
    \/ ManagerDelete

SpecManager == InitIdle /\ [][NextManager]_vars

\* ---------------------------------------------------- orchestrator actions
\* Both orchestrators are run on one repository.

PipeForeign == <<embedVars, authVars, artVars, loader, gen, projects, creator, response,
                 splitCall, workers, manager>>

StartPipelines ==
    /\ pipe = PipeIdle
    /\ \E repo \in PipelineRepos :
         pipe' = [repo |-> repo,
                  simple |-> [NoRun EXCEPT !.next = SimpleStages[1]],
                  graph |-> [NoRun EXCEPT !.next = GraphEntry]]
    /\ UNCHANGED PipeForeign

\* What a run is after the stage it is at: the stage and its arguments are
\* noted, and the state takes the agent's result.
AfterStage(run, input, next) ==
    [next |-> next,
     order |-> Append(run.order, run.next),
     inputs |-> Append(run.inputs, input),
     state |-> StageResult(run.next, input, run.state)]

\* The next statement of run_pipeline.
RunPipelineStage ==
    /\ pipe.simple.next \in Range(SimpleStages)
    /\ LET done == Len(pipe.simple.order) + 1
           next == IF done < Len(SimpleStages) THEN SimpleStages[done + 1] ELSE "__end__"
       IN  pipe' = [pipe EXCEPT !.simple =
                       AfterStage(@, SimpleInput(@.next, pipe.repo, @.state), next)]
    /\ UNCHANGED PipeForeign

\* The next node of the compiled graph.
RunGraphNode ==
    /\ pipe.graph.next \in DOMAIN GraphEdges
    /\ pipe' = [pipe EXCEPT !.graph =
                   AfterStage(@, GraphInput(@.next, pipe.repo, @.state), GraphEdges[@.next])]
    /\ UNCHANGED PipeForeign

NextPipelines ==
    \/ StartPipelines
    \/ RunPipelineStage
    \/ RunGraphNode

SpecPipelines == InitIdle /\ [][NextPipelines]_vars

\* split_text is called on a text and returns its chunks.
InitSplit ==
    /\ EmbedIdle
    /\ gen = GenIdle
    /\ projects = NoProjects
    /\ creator = <<>>
    /\ response = NoResponse
    /\ workers = NoWorkers
    /\ users = NoUsers
    /\ credential = NoUsers
    /\ authResp = NoAuthResp
    /\ loader = NoLoader
    /\ articles = NoArticles
    /\ repoData = [p \in DOMAIN ProjectOwner |-> "none"]
    /\ clock = 0
    /\ generated = 0
    /\ artResp = NoArtResp
    /\ manager = ManagerIdle
    /\ pipe = PipeIdle
    /\ splitCall \in {[NoSplit EXCEPT !.text = t, !.chunk_overlap = o] :
                          t \in Texts, o \in ChunkOverlaps}

SplitText ==
    /\ ~splitCall.done
    /\ splitCall' = [splitCall EXCEPT
                        !.done = TRUE,
                        !.chunks = split_text(splitCall.text, splitCall.chunk_size,
                                              splitCall.chunk_overlap)]
    /\ UNCHANGED <<embedVars, manager, pipe, artVars, loader, authVars, workers, gen, projects, creator, response>>

SpecSplit == InitSplit /\ [][SplitText]_vars

\* --------------------------------------------- definitions of the claims

Count(s, x) == Cardinality({k \in DOMAIN s : s[k] = x})

AddTextsCall == caller \in {"pipeline", "direct"}

Ended == pc = "idle" /\ outcome # "none"

\* An _embed_with_jina call has returned and its value is about to be used.
EmbedReturned == pc \in {"upsert", "s_query"}

\* The texts of the last _embed_with_jina call.
EmbeddedTexts == events[Len(events)].texts

IsEmbed(e) == e.op = "embed"
IsUpsert(e) == e.op = "upsert"

\* The texts of the batches embedded so far, batch after batch.
EmbeddedSoFar(upto) ==
    Concat([k \in 1..Len(SelectSeq(SubSeq(events, 1, upto), IsEmbed)) |->
               SelectSeq(SubSeq(events, 1, upto), IsEmbed)[k].texts])

\* The number of batches range(0, len(text_chunks), batch_size) yields.
NumBatches == (Len(text_chunks) + batch_size - 1) \div batch_size

\* The position of file f's first part in the work list, 0-based.
RECURSIVE Offset(_)
Offset(f) == IF f = 1 THEN 0 ELSE Offset(f - 1) + Len(files[f - 1].parts)

\* C1: every _embed_with_jina call returns exactly len(texts) vectors, each
\* of length EMBEDDING_DIM, whichever provider produced them.
C1_EmbedCountAndDimension ==
    EmbedReturned =>
        /\ Len(vectors) = Len(EmbeddedTexts)
        /\ \A k \in DOMAIN vectors : vectors[k].len = cfgDim

\* C2: every point add_texts passes to upsert has a vector whose length is
\* the collection's dimension; no other point is sent to the index.
C2_UpsertedPointsHaveCollectionDimension ==
    \A k \in DOMAIN events :
        IsUpsert(events[k]) =>
            \A n \in DOMAIN events[k].points : events[k].points[n].vector.len = coll.size

\* C3: the local model is attempted only after the remote primary provider
\* has been called and has failed on all ApiRetryAttempts attempts, and the
\* placeholder is produced only after the local model has failed too.
C3_FallbackOnlyAfterPrimaryExhausted ==
    \A k \in DOMAIN provLog :
        /\ provLog[k] \in {"local_ok", "local_fail"} =>
               Count(SubSeq(provLog, 1, k - 1), "jina_fail") = ApiRetryAttempts
        /\ provLog[k] = "dummy" => Count(SubSeq(provLog, 1, k - 1), "local_fail") >= 1

\* C4: no _embed_with_jina call raises; every one returns vectors (the
\* placeholder when the providers failed) and is followed by the upsert of
\* its batch in add_texts and by the index query in search.
C4_EmbeddingFailureNeverHalts ==
    /\ outcome # "raised_embed"
    /\ \A k \in DOMAIN events :
          IsEmbed(events[k]) =>
              /\ events[k].ok
              /\ IF k = Len(events)
                 THEN /\ EmbedReturned
                      /\ Len(vectors) = Len(events[k].texts)
                      /\ "local_ok" \notin Range(provLog) =>
                             \A n \in DOMAIN vectors : vectors[n] = DummyEmb(cfgDim)
                 ELSE events[k + 1].op = (IF caller \in SearchCallers THEN "query" ELSE "upsert")
                      /\ events[k + 1].texts = events[k].texts

\* C4 witness: both uses of the local model failed, the placeholder batch was
\* upserted and is in the index.
C4_Witness ==
    /\ AddTextsCall
    /\ "dummy" \in Range(provLog)
    /\ Len(events) >= 2
    /\ IsUpsert(events[Len(events)]) /\ events[Len(events)].ok
    /\ \E p \in points \ before : p.vector = DummyEmb(cfgDim)

\* C5: the degraded-embedding warning is recorded exactly once for a batch
\* that gets the placeholder, all of whose vectors are then the same, and
\* is not recorded for a batch that gets genuine embeddings.
C5_WarningOncePerPlaceholderBatch ==
    (EmbedReturned /\ provLog # <<>>) =>
        IF \E k \in DOMAIN vectors : vectors[k].kind = "dummy"
        THEN /\ Count(provLog, "print_fallback") = 1
             /\ \A k \in DOMAIN vectors : vectors[k] = vectors[1]
        ELSE Count(provLog, "print_fallback") = 0

\* C6: a pipeline ingestion that ends without failure has added exactly one
\* new point per chunk of its work list, each under an id the index did not
\* hold, and has left every point the index held before as it was.
C6_OnePointPerChunk ==
    (Ended /\ caller = "pipeline" /\ outcome = "returned") =>
        /\ before \subseteq points
        /\ Cardinality(points \ before) = Len(text_chunks)
        /\ Cardinality({p.id : p \in points}) = Cardinality(points)
        /\ \A p \in points \ before : \A r \in before : r.id # p.id

\* C6 witness: the same repository, of more chunks than one batch holds, was
\* ingested twice and the index holds both copies.
C6_Witness ==
    /\ Ended /\ caller = "pipeline" /\ outcome = "returned"
    /\ Len(text_chunks) > DefaultBatchSize
    /\ Cardinality(before) = Len(text_chunks)
    /\ {p.payload : p \in before} = {p.payload : p \in points \ before}
    /\ Cardinality(points) = 2 * Len(text_chunks)

\* C7: when the upsert of a batch fails, every later batch is still embedded
\* and upserted and the call ends with a report instead of an exception.
C7_BatchesIndependent ==
    (Ended /\ AddTextsCall /\ setup.error = "none"
           /\ C2_UpsertedPointsHaveCollectionDimension) =>
        /\ outcome = "returned"
        /\ Len(SelectSeq(events, IsEmbed)) = NumBatches
        /\ Len(SelectSeq(events, IsUpsert)) = NumBatches

\* C8: add_texts embeds and upserts consecutive batches of at most
\* batch_size elements, in work-list order: each batch is embedded, then
\* upserted, before the next one is embedded; the batches are disjoint and
\* their concatenation is the work list; the pipeline's work list holds the
\* files' parts in file order, then part order.
C8_BatchesInOrder ==
    AddTextsCall =>
        /\ \A k \in DOMAIN events :
              /\ events[k].op = (IF k % 2 = 1 THEN "embed" ELSE "upsert")
              /\ Len(events[k].texts) \in 1..batch_size
              /\ k % 2 = 1 => events[k].at = Len(EmbeddedSoFar(k - 1))
              /\ k % 2 = 0 => /\ events[k].texts = events[k - 1].texts
                              /\ events[k].at = events[k - 1].at
              /\ \A n \in DOMAIN events[k].texts :
                    events[k].texts[n] = text_chunks[events[k].at + n]
        /\ (Ended /\ outcome = "returned") => EmbeddedSoFar(Len(events)) = text_chunks
        /\ caller = "pipeline" =>
              /\ Len(text_chunks) = Offset(Len(files) + 1)
              /\ \A f \in DOMAIN files : \A n \in DOMAIN files[f].parts :
                    /\ text_chunks[Offset(f) + n] = files[f].parts[n]
                    /\ metadata_list[Offset(f) + n] = Meta(files[f].path)

\* C8 witness: a call of three batches has returned.
C8_Witness ==
    /\ Ended /\ AddTextsCall /\ outcome = "returned"
    /\ Len(events) = 6
    /\ Len(text_chunks) = 3

\* C9: _ensure_collection issues create_collection only when the collection
\* does not exist, also when listing the collections fails.
C9_CreateOnlyIfAbsent ==
    setup.createIssued => ~setup.existed

\* C10: when the collection exists with another dimension than
\* EMBEDDING_DIM, setup fails with a ConfigurationError, so that no upsert
\* is attempted against it.
C10_DimensionMismatchIsConfigurationError ==
    (setup.done /\ setup.existed /\ coll.size # cfgDim) =>
        setup.error = "ConfigurationError"

\* ------------------------------------------------------ claims C11..C17

IsQuery(e) == e.op = "query"
IsChat(e) == e.op = "chat"

RECURSIVE CharLen(_)
CharLen(t) == IF t = <<>> THEN 0 ELSE Len(Head(t)) + CharLen(Tail(t))

\* The search of the running call has returned its hits.
SearchReturned ==
    /\ caller \in SearchCallers
    /\ \/ pc = "generate"
       \/ Ended /\ outcome \in {"returned", "raised_generation"}

\* t is s without its leading and trailing whitespace pieces.
IsTrimOf(t, s) ==
    /\ t # <<>> => ~IsSpace(t[1]) /\ ~IsSpace(t[Len(t)])
    /\ \E lo \in 0..Len(s) : \E hi \in lo..Len(s) :
          /\ t = SubSeq(s, lo + 1, hi)
          /\ \A k \in (1..lo) \cup ((hi + 1)..Len(s)) : IsSpace(s[k])

\* C11: answer makes exactly one search call and one generation call; the
\* prompt holds the hits' payload texts in the order of the hits, a blank
\* line between two of them, followed by the query; the value returned is the
\* backend's text without its surrounding whitespace.
C11_AnswerPromptAndValue ==
    (Ended /\ caller = "answer" /\ outcome = "returned") =>
        /\ qa.searches = 1
        /\ qa.chats = 1
        /\ Len(SelectSeq(events, IsChat)) = 1
        /\ Len(qa.prompt) = 4 + (IF hits = <<>> THEN 0 ELSE 2 * Len(hits) - 1)
        /\ \A n \in DOMAIN hits :
              /\ qa.prompt[2 * n] = hits[n].payload["text"]
              /\ n < Len(hits) => qa.prompt[2 * n + 1] = "\n\n"
        /\ SubSeq(qa.prompt, Len(qa.prompt) - 2, Len(qa.prompt))
              = <<"\n\nQuestion: ", query.text, "\n\nAnswer:">>
        /\ IsTrimOf(qa.answer, qa.resp)

\* C11 witness: an answer over two hits or more whose backend text had
\* surrounding whitespace.
C11_Witness ==
    /\ Ended /\ caller = "answer" /\ outcome = "returned"
    /\ Len(hits) >= 2
    /\ qa.answer # <<>>
    /\ qa.resp # qa.answer

\* C12: the context sent to generation never exceeds the input budget;
\* lowest-ranked hits are dropped, whole, until it fits.
C12_ContextWithinBudget ==
    (caller = "answer" /\ qa.chats > 0) =>
        CharLen(SubSeq(qa.prompt, 2, Len(qa.prompt) - 3)) <= InputBudget

\* C13: search returns at most top_k hits, their scores do not increase
\* along the list, and the list has the number and the order of the hits the
\* index returned.
C13_AtMostTopKNonIncreasing ==
    SearchReturned =>
        /\ Len(hits) <= query.top_k
        /\ \A n \in 1..(Len(hits) - 1) : hits[n].score >= hits[n + 1].score
        /\ LET res == IndexSearch(points, vectors[1], query.top_k)
           IN  /\ Len(hits) = Len(res)
               /\ \A n \in DOMAIN hits :
                     hits[n].payload = res[n].payload /\ hits[n].score = res[n].score

\* C13 witness: the index holds more points than top_k, of different scores.
C13_Witness ==
    /\ SearchReturned
    /\ Cardinality(points) > query.top_k
    /\ Len(hits) = query.top_k
    /\ \E p \in points : Score(vectors[1], p.vector) < hits[1].score

\* C14: every stored point's payload text is the chunk text it was built
\* from, whatever metadata was given, and its source is the given one.
C14_PayloadTextIsChunkText ==
    \A k \in DOMAIN events :
        (IsUpsert(events[k]) /\ events[k].ok) =>
            \A n \in DOMAIN events[k].points :
                /\ events[k].points[n].payload["text"] = events[k].texts[n]
                /\ events[k].points[n] \in points

\* C15: the index query of search is attempted at most ApiRetryAttempts
\* times; an attempt follows a failed one only when the failure was
\* transient; any other failure, and the transient failure of the last
\* attempt, ends the call with the error; each attempt embeds the query once.
C15_ApiRetryAttempts ==
    caller \in SearchCallers =>
        /\ Len(SelectSeq(events, IsQuery)) <= ApiRetryAttempts
        /\ \A k \in DOMAIN events :
              /\ IsQuery(events[k]) =>
                    /\ events[k].at = Len(SelectSeq(SubSeq(events, 1, k), IsQuery))
                    /\ IsEmbed(events[k - 1])
                    /\ Len(SelectSeq(SubSeq(events, 1, k), IsEmbed)) = events[k].at
              /\ (IsQuery(events[k]) /\ ~events[k].ok) =>
                    IF events[k].exc = "transient" /\ events[k].at < ApiRetryAttempts
                    THEN /\ k = Len(events) =>
                              pc = "s_embed" /\ attempt = events[k].at + 1 /\ outcome = "none"
                         /\ k < Len(events) => IsEmbed(events[k + 1])
                    ELSE k = Len(events) /\ Ended /\ outcome = "raised_search"

\* C15 witness: three transient failures, then the error.
C15_Witness ==
    /\ Ended /\ outcome = "raised_search"
    /\ Len(SelectSeq(events, IsQuery)) = ApiRetryAttempts
    /\ \A k \in DOMAIN events : IsQuery(events[k]) => events[k].exc = "transient"

\* C17: answer calls the generation backend at most once; when that call
\* fails the error ends answer and no text is returned.
C17_GenerationFailurePropagates ==
    caller = "answer" =>
        /\ qa.chats <= 1
        /\ Len(SelectSeq(events, IsChat)) = qa.chats
        /\ \A k \in DOMAIN events :
              (IsChat(events[k]) /\ ~events[k].ok) =>
                  /\ k = Len(events)
                  /\ Ended /\ outcome = "raised_generation"
                  /\ qa.answer = <<>>

\* C17 witness: the generation call failed.
C17_Witness ==
    /\ Ended /\ caller = "answer" /\ outcome = "raised_generation"
    /\ qa.chats = 1
    /\ hits # <<>>

\* ----------------------------------------------------------- claim C16

\* C16: a configuration error raised by a call is never retried: the attempt
\* in which it was raised is the last attempt of the operation, which ends by
\* raising.  Stated for generate and generate_outline, wrapped by llm_retry.
C16_ConfigurationErrorNeverRetried ==
    \A k \in DOMAIN gen.log :
        gen.log[k].chat = "configuration" =>
            /\ k = Len(gen.log)
            /\ gen.pc = "idle"
            /\ gen.outcome = "raised"

\* ----------------------------------------------------------- claim C20

\* The projects with this id, wherever the file holds them.
StoredBefore(file, id) ==
    UNION {{[owner |-> u, project |-> file[u][k]] :
               k \in {j \in DOMAIN file[u] : file[u][j].id = id}} : u \in DOMAIN file}

StoredProjects(id) == StoredBefore(projects, id)

ByAnotherUser == response.id \in DOMAIN creator /\ creator[response.id] # response.user

IsSubstring(c, t) == c = <<>> \/ \E pos \in 1..Len(t) : OccursAt(t, c, pos)

\* The chunks put together, each one after the first without its first
\* chunk_overlap characters.
RECURSIVE Reassembled(_, _)
Reassembled(chunks, chunk_overlap) ==
    IF chunks = <<>> THEN <<>>
    ELSE IF Len(chunks) = 1 THEN chunks[1]
    ELSE Reassembled(SubSeq(chunks, 1, Len(chunks) - 1), chunk_overlap)
            \o SubSeq(chunks[Len(chunks)], chunk_overlap + 1, Len(chunks[Len(chunks)]))

\* Chunk k starts with the last chunk_overlap characters of chunk k - 1.
OverlapsPrevious(chunks, k, chunk_overlap) ==
    /\ Len(chunks[k - 1]) >= chunk_overlap
    /\ Len(chunks[k]) >= chunk_overlap
    /\ SubSeq(chunks[k], 1, chunk_overlap)
          = SubSeq(chunks[k - 1], Len(chunks[k - 1]) - chunk_overlap + 1, Len(chunks[k - 1]))

\* C18: a text no longer than chunk_size comes back as one chunk equal to
\* the text, whitespace at its ends included; the empty text gives no chunk.
C18_ShortTextIsOneVerbatimChunk ==
    (splitCall.done /\ Len(splitCall.text) <= splitCall.chunk_size) =>
        splitCall.chunks = IF splitCall.text = <<>> THEN <<>> ELSE <<splitCall.text>>

\* C19: a text longer than chunk_size gives at least two chunks, each at
\* most chunk_size long and a substring of the text, each after the first
\* starting with the last chunk_overlap characters of the one before, and
\* the chunks without the overlaps put together are the text.
C19_LongTextChunksOverlapAndReassemble ==
    (splitCall.done /\ Len(splitCall.text) > splitCall.chunk_size) =>
        LET chunks == splitCall.chunks
        IN  /\ Len(chunks) >= 2
            /\ \A k \in DOMAIN chunks :
                  /\ Len(chunks[k]) <= splitCall.chunk_size
                  /\ IsSubstring(chunks[k], splitCall.text)
                  /\ k > 1 => OverlapsPrevious(chunks, k, splitCall.chunk_overlap)
            /\ Reassembled(chunks, splitCall.chunk_overlap) = splitCall.text

\* ----------------------------------------------------------- claim C21

\* Every stored project with its owner.
AllStored(file) ==
    UNION {{[owner |-> u, project |-> file[u][k]] : k \in DOMAIN file[u]} : u \in DOMAIN file}

\* C21: a DELETE answered 200 removes the user's project with that id and
\* nothing else; a DELETE of an id that is not in the user's list is answered
\* 404 and leaves the store as it was.
C21_DeleteRemovesExactlyThatProject ==
    response.op = "delete" =>
        LET mine == {s \in AllStored(response.before) :
                        s.owner = response.user /\ s.project.id = response.id}
        IN  /\ response.status = (IF mine = {} THEN 404 ELSE 200)
            /\ response.status = 200 =>
                  /\ FindProject(UserProjects(projects, response.user), response.id) = 0
                  /\ AllStored(projects) = AllStored(response.before) \ mine
                  /\ \A u \in DOMAIN response.before \ {response.user} :
                        projects[u] = response.before[u]
            /\ response.status = 404 => projects = response.before

\* A project was deleted while another one was stored.
C21_Witness ==
    /\ response.op = "delete"
    /\ response.status = 200
    /\ AllStored(projects) # {}
    /\ Cardinality(AllStored(response.before)) = Cardinality(AllStored(projects)) + 1

\* ----------------------------------------------------------- claim C25

\* C25: when create requests handled at the same time have all returned
\* 201, the project of each of them is in the store.
C25_NoLostUpdate ==
    \A w \in Workers :
        (workers[w].pc = "returned" /\ workers[w].status = 201) =>
            StoredProjects(workers[w].id) # {}

\* ----------------------------------------------------------- claim C26

\* C26: an add_texts call that returns has stored one new point for every
\* element of text_chunks, with that element as its text unless the
\* metadata names another.
C26_NoChunkLostSilently ==
    (Ended /\ caller = "direct" /\ outcome = "returned") =>
        /\ Cardinality(points \ before) = Len(text_chunks)
        /\ \A k \in DOMAIN text_chunks :
              \E p \in points \ before :
                  p.payload = Payload(text_chunks[k],
                                      IF k \in DOMAIN metadata_list THEN metadata_list[k]
                                      ELSE NoMeta)

\* ------------------------------------------------------ claims C22, C23

\* The username a request is about, as the handler uses it.
AuthUser == Strip(authResp.username)

\* C22: after a successful register, login with the same username and
\* password is answered 200 with a token; login is answered 200 exactly for
\* the password set last; change-password is answered 200 exactly when the
\* old password matches the stored one and the new one is valid and differs,
\* and then login with the new password is answered 200 and with the old one
\* 401; a change-password not answered 200 leaves the store as it was.
C22_AccountLifecycle ==
    /\ (authResp.op = "register" /\ authResp.status = 201) =>
          LET r == LoginResult(users, authResp.username, authResp.password)
          IN  r.status = 200 /\ r.token = AuthUser
    /\ authResp.op = "login" =>
          /\ authResp.status = 200 <=>
                /\ AuthUser \in DOMAIN credential
                /\ Strip(authResp.password) = credential[AuthUser].last
          /\ authResp.status = 200 => authResp.token = AuthUser
          /\ (AuthUser \in DOMAIN credential /\ Strip(authResp.password) # <<>>
                 /\ Strip(authResp.password) # credential[AuthUser].last) =>
                authResp.status = 401
    /\ authResp.op = "change" =>
          LET old == Strip(authResp.old_password)
              new == Strip(authResp.new_password)
              u == authResp.username
          IN  /\ authResp.status = 200 <=>
                    /\ u \in DOMAIN authResp.before
                    /\ authResp.before[u].password = hash_password(old)
                    /\ validate_password(new)
                    /\ new # old
              /\ authResp.status = 200 =>
                    /\ LoginResult(users, u, authResp.new_password).status = 200
                    /\ LoginResult(users, u, authResp.old_password).status = 401
                    /\ \A v \in DOMAIN users \ {u} : users[v] = authResp.before[v]
                    /\ users[u].email = authResp.before[u].email
              /\ authResp.status # 200 => users = authResp.before

\* After a change of password, a login with the password of the
\* registration was refused.
C22_Witness ==
    /\ authResp.op = "login"
    /\ authResp.status = 401
    /\ AuthUser \in DOMAIN credential
    /\ Strip(authResp.password) = credential[AuthUser].first
    /\ credential[AuthUser].last # credential[AuthUser].first

RECURSIVE Components(_)
Components(path) ==
    IF \A k \in DOMAIN path : path[k] # "/" THEN <<path>>
    ELSE LET k == CHOOSE j \in DOMAIN path :
                      path[j] = "/" /\ \A n \in 1..(j - 1) : path[n] # "/"
         IN  <<SubSeq(path, 1, k - 1)>> \o Components(SubSeq(path, k + 1, Len(path)))

\* Some component before the last one is the name of an excluded directory.
HasExcludedDir(path) ==
    LET c == Components(NormalizeSeparators(path))
    IN  \E k \in 1..(Len(c) - 1) : \E excluded \in EXCLUDE_DIRS : c[k] = <<excluded>>

\* Some component, the last one included, is the name of an excluded
\* directory.
HasExcludedComponent(path) ==
    LET c == Components(NormalizeSeparators(path))
    IN  \E k \in DOMAIN c : \E excluded \in EXCLUDE_DIRS : c[k] = <<excluded>>

\* Every record returned has no excluded directory above the file, a name
\* that is not an excluded file and that ends, whatever the case of its
\* letters, with an allowed extension or is a special name, and a size of at
\* most max_file_size.
RecordsAreFiltered ==
    \A n \in DOMAIN loader.files :
        LET f == loader.files[n]
        IN  /\ ~HasExcludedDir(f.path)
            /\ f.name \notin EXCLUDE_FILES
            /\ \/ Lower(f.name[Len(f.name)]) \in Extensions
               \/ f.name \in SpecialNames
            /\ f.size <= max_file_size

\* C24 as stated: the records returned are filtered, and should_exclude is
\* true exactly for the paths that have the name of an excluded directory as
\* a component.
C24_ExcludedExactlyByAnyComponent ==
    /\ RecordsAreFiltered
    /\ loader.probe # <<>> => (loader.excluded <=> HasExcludedComponent(loader.probe))

\* C24, amended: the records returned are filtered, and should_exclude is
\* true exactly for the paths in which a component other than the last one
\* is the name of an excluded directory.
C24_LoadedFilesAreFiltered ==
    /\ RecordsAreFiltered
    /\ loader.probe # <<>> => (loader.excluded <=> HasExcludedDir(loader.probe))

\* A tree with a file under venv and a file over the size limit was walked
\* to the end and gave records, and should_exclude was asked about a path
\* that ends in the name of an excluded directory.
C24_Witness ==
    /\ loader.done
    /\ {4, 5, 6, 7} \subseteq loader.tree
    /\ loader.files # <<>>
    /\ \E n \in DOMAIN loader.files : loader.files[n].size = max_file_size
    /\ loader.probe = <<"src", "/", "build">>
    /\ ~loader.excluded

\* ------------------------------------------------------ claims C27, C28

\* C27: no two articles stored for a user have the same id.
C27_ArticleIdsUniquePerUser ==
    \A u \in DOMAIN articles :
        \A m, n \in DOMAIN articles[u] :
            articles[u][m].id = articles[u][n].id => m = n

\* C28: a generate request is answered 200 and appends one article to the
\* user's list only for a project of that user that has repo_data and when
\* the generation call returned; answered 400, 404 or 500 it leaves the
\* articles as they were, and it never touches another user's articles.
C28_ArticleOnlyForAnalysedOwnProject ==
    artResp.op = "generate" =>
        LET u == artResp.user
            pid == artResp.project_id
        IN  /\ artResp.status \in {200, 400, 404, 500}
            /\ artResp.status # 200 => articles = artResp.before
            /\ articles # artResp.before => artResp.status = 200
            /\ artResp.status = 200 =>
                  /\ pid \in DOMAIN ProjectOwner
                  /\ ProjectOwner[pid] = u
                  /\ repoData[pid] # "none"
                  /\ artResp.chat = "ok"
                  /\ Len(articles[u]) = Len(UserArticles(artResp.before, u)) + 1
                  /\ SubSeq(articles[u], 1, Len(articles[u]) - 1)
                        = UserArticles(artResp.before, u)
                  /\ articles[u][Len(articles[u])].project_id = pid
                  /\ \A v \in DOMAIN artResp.before \ {u} : articles[v] = artResp.before[v]

\* A generation that failed for an analysed project of the user, who has
\* an article already, was answered 500.
C28_Witness ==
    /\ artResp.op = "generate"
    /\ artResp.status = 500
    /\ artResp.project_id \in DOMAIN ProjectOwner
    /\ ProjectOwner[artResp.project_id] = artResp.user
    /\ repoData[artResp.project_id] = "with_languages"
    /\ artResp.chat # "ok"
    /\ UserArticles(articles, artResp.user) # <<>>

\* ------------------------------------------------------------------- C29

\* The fields of a stored record that the claim names.
SameRecord(a, b) ==
    /\ a.repo_url = b.repo_url
    /\ a.analyzed = b.analyzed
    /\ a.created_at = b.created_at
    /\ ("repo_data" \in DOMAIN a) = ("repo_data" \in DOMAIN b)
    /\ "repo_data" \in DOMAIN a /\ "repo_data" \in DOMAIN b => a.repo_data = b.repo_data

\* C29: create_project never overwrites an existing project: after a
\* create_project call whose derived id was already stored, the stored record
\* (repo_url, repo_data, analyzed, created_at) is as it was before the call,
\* and every other stored project is unchanged.
C29_CreateNeverOverwrites ==
    manager.op = "create" =>
        /\ manager.id \in DOMAIN manager.before =>
               SameRecord(manager.file[manager.id], manager.before[manager.id])
        /\ \A p \in DOMAIN manager.before \ {manager.id} :
               p \in DOMAIN manager.file /\ manager.file[p] = manager.before[p]

\* The half of C29 that the code keeps: a create_project call changes no
\* project other than the one with the derived id.
ManagerCreateKeepsOthers ==
    manager.op = "create" =>
        \A p \in DOMAIN manager.before \ {manager.id} :
            p \in DOMAIN manager.file /\ manager.file[p] = manager.before[p]

\* An analysed project is stored and a create_project call hits its id.
ManagerCreateHitsAnalysed ==
    /\ manager.op = "create"
    /\ manager.id \in DOMAIN manager.before
    /\ manager.before[manager.id].analyzed

\* ------------------------------------------------------------------- C30

BothReturned == pipe.simple.next = "__end__" /\ pipe.graph.next = "__end__"

\* The stages ran in the same order in both orchestrators.
SameStageOrder ==
    BothReturned =>
        /\ pipe.simple.order = pipe.graph.order
        /\ pipe.simple.order = <<"analyze", "embed", "metadata", "improve", "review">>

\* Both orchestrators end with the same metadata and improved content.
SameMetadataAndImproved ==
    BothReturned =>
        /\ pipe.simple.state.metadata = pipe.graph.state.metadata
        /\ pipe.simple.state.improved = pipe.graph.state.improved

\* C30: the two orchestrators are equivalent: on the same repository they run
\* the stages in the same order, pass each stage the same inputs, and end
\* with the same metadata, improved content and review.
C30_OrchestratorsEquivalent ==
    BothReturned =>
        /\ pipe.simple.order = pipe.graph.order
        /\ \A k \in DOMAIN pipe.simple.order :
               /\ Len(pipe.simple.inputs[k]) = Len(pipe.graph.inputs[k])
               /\ \A a \in DOMAIN pipe.simple.inputs[k] :
                      pipe.simple.inputs[k][a] = pipe.graph.inputs[k][a]
        /\ pipe.simple.state.metadata = pipe.graph.state.metadata
        /\ pipe.simple.state.improved = pipe.graph.state.improved
        /\ pipe.simple.state.review.recommendations = pipe.graph.state.review.recommendations
        /\ pipe.simple.state.review.validation_results
               = pipe.graph.state.review.validation_results

\* The reviews of the two orchestrators agree on the issues and on the
\* completeness checks, which do not read the second argument.
SameIssues ==
    BothReturned =>
        /\ pipe.simple.state.review.issues = pipe.graph.state.review.issues
        /\ pipe.simple.state.review.validation_results.completeness
               = pipe.graph.state.review.validation_results.completeness

=============================================================================
